---- MODULE Spec2Model ----
(***************************************************************************)
(* places_bot: the per-user guided-dialog engine of src/bot.py (the nine   *)
(* add-wizards, their drafts user_*_data and the aiogram FSM state), the   *)
(* TTL cache of src/utils.py, the persistence calls of src/database.py and *)
(* the reminder loop check_and_send_reminders.                             *)
(*                                                                         *)
(* Texts are modelled as sequences of one-character strings where the code *)
(* parses them (amounts, years, dates, coordinates) and as opaque tokens   *)
(* where the code only compares or stores them (buttons, names, notes).    *)
(* A float is a fixed-point integer in units of 1/Scale.                   *)
(***************************************************************************)
EXTENDS Integers, Sequences, FiniteSets, TLC

\* ------------------------------------------------------------------ bounds
\* Wizard starts allowed in one behaviour (bounds the drafts left behind).
MaxStarts == 1
\* In-flight handler tasks of the concurrent specification.
MaxTasks == 3
\* Scheduler ticks in one behaviour.
MaxTicks == 3

\* Fixed-point unit of a parsed float: four decimals, as in "55.7558".
Scale == 10000

\* ------------------------------------------------------------ text helpers
IsDigit(c) == c \in {"0", "1", "2", "3", "4", "5", "6", "7", "8", "9"}

DigitVal(c) ==
  CASE c = "0" -> 0 [] c = "1" -> 1 [] c = "2" -> 2 [] c = "3" -> 3
    [] c = "4" -> 4 [] c = "5" -> 5 [] c = "6" -> 6 [] c = "7" -> 7
    [] c = "8" -> 8 [] c = "9" -> 9 [] OTHER -> 0

\* str.replace(a, b) for one-character a and b.
Replace(s, a, b) == [i \in 1..Len(s) |-> IF s[i] = a THEN b ELSE s[i]]

\* str.replace(a, ''): every occurrence of the character a removed.
RECURSIVE Remove(_, _)
Remove(s, a) ==
  IF s = <<>> THEN <<>>
  ELSE IF Head(s) = a THEN Remove(Tail(s), a)
       ELSE <<Head(s)>> \o Remove(Tail(s), a)

RECURSIVE LStrip(_)
LStrip(s) == IF s # <<>> /\ Head(s) = " " THEN LStrip(Tail(s)) ELSE s

RECURSIVE RStrip(_)
RStrip(s) ==
  IF s # <<>> /\ s[Len(s)] = " " THEN RStrip(SubSeq(s, 1, Len(s) - 1)) ELSE s

\* str.strip()
Strip(s) == RStrip(LStrip(s))

\* str.split(c): the parts between occurrences of c, empty parts kept.
RECURSIVE SplitOn(_, _)
SplitOn(s, c) ==
  IF \A i \in 1..Len(s) : s[i] # c THEN <<s>>
  ELSE LET k == CHOOSE i \in 1..Len(s) : s[i] = c /\ \A j \in 1..(i - 1) : s[j] # c
       IN <<SubSeq(s, 1, k - 1)>> \o SplitOn(SubSeq(s, k + 1, Len(s)), c)

\* str.split(): split on runs of whitespace, no empty parts.
SplitWs(s) == SelectSeq(SplitOn(s, " "), LAMBDA p : p # <<>>)

AllDigits(s) == s # <<>> /\ \A i \in 1..Len(s) : IsDigit(s[i])

RECURSIVE DigitsVal(_)
DigitsVal(s) ==
  IF s = <<>> THEN 0 ELSE 10 * DigitsVal(SubSeq(s, 1, Len(s) - 1)) + DigitVal(s[Len(s)])

RECURSIVE Pow10(_)
Pow10(n) == IF n = 0 THEN 1 ELSE 10 * Pow10(n - 1)

Failed == [ok |-> FALSE, v |-> 0]
Parsed(n) == [ok |-> TRUE, v |-> n]

\* int(s): surrounding blanks stripped, an optional sign, then digits only.
\* ok = FALSE stands for the ValueError.
ParseInt(s) ==
  LET t == Strip(s)
      neg == t # <<>> /\ Head(t) = "-"
      body == IF t # <<>> /\ Head(t) \in {"-", "+"} THEN Tail(t) ELSE t
  IN IF AllDigits(body)
     THEN Parsed(IF neg THEN 0 - DigitsVal(body) ELSE DigitsVal(body))
     ELSE Failed

\* float(s) on the alphabet of digits, sign, point and blanks: an optional sign,
\* digits with at most one point and at least one digit. The value is in units of
\* 1/Scale (inputs carry at most four decimals).
ParseFloat(s) ==
  LET t == Strip(s)
      neg == t # <<>> /\ Head(t) = "-"
      body == IF t # <<>> /\ Head(t) \in {"-", "+"} THEN Tail(t) ELSE t
      parts == SplitOn(body, ".")
      ip == parts[1]
      fp == IF Len(parts) = 2 THEN parts[2] ELSE <<>>
      wellFormed == /\ Len(parts) \in {1, 2}
                    /\ \A i \in 1..Len(ip) : IsDigit(ip[i])
                    /\ \A i \in 1..Len(fp) : IsDigit(fp[i])
                    /\ Len(ip) + Len(fp) > 0
                    /\ Len(fp) <= 4
      mag == DigitsVal(ip) * Scale + DigitsVal(fp) * Pow10(4 - Len(fp))
  IN IF wellFormed THEN Parsed(IF neg THEN 0 - mag ELSE mag) ELSE Failed

\* The characters of the texts the model's users type where the code parses.
Chars(t) ==
  CASE t = "450"    -> <<"4", "5", "0">>
    [] t = "12,5"   -> <<"1", "2", ",", "5">>
    [] t = "12.5"   -> <<"1", "2", ".", "5">>
    [] t = "-3"     -> <<"-", "3">>
    [] t = "0"      -> <<"0">>
    [] t = "8"      -> <<"8">>
    [] t = "abc"    -> <<"a", "b", "c">>
    [] t = "2020"   -> <<"2", "0", "2", "0">>
    [] t = "1799"   -> <<"1", "7", "9", "9">>
    [] t = "3"      -> <<"3">>
    [] t = "29.02.2024" -> <<"2", "9", ".", "0", "2", ".", "2", "0", "2", "4">>
    [] t = "29.02.2023" -> <<"2", "9", ".", "0", "2", ".", "2", "0", "2", "3">>
    [] t = "15.3"   -> <<"1", "5", ".", "3">>
    [] t = "31.02"  -> <<"3", "1", ".", "0", "2">>
    [] t = "15"     -> <<"1", "5">>
    [] t = "1.2.3.4" -> <<"1", ".", "2", ".", "3", ".", "4">>
    [] t = "15..3"  -> <<"1", "5", ".", ".", "3">>
    [] t = "55.7558, 37.6173" ->
         <<"5", "5", ".", "7", "5", "5", "8", ",", " ", "3", "7", ".", "6", "1", "7", "3">>
    [] t = "55.7558 37.6173" ->
         <<"5", "5", ".", "7", "5", "5", "8", " ", "3", "7", ".", "6", "1", "7", "3">>
    [] t = "91,200" -> <<"9", "1", ",", "2", "0", "0">>
    [] t = "-90,180" -> <<"-", "9", "0", ",", "1", "8", "0">>
    [] t = "55.7558" -> <<"5", "5", ".", "7", "5", "5", "8">>
    [] t = "1,2,3"  -> <<"1", ",", "2", ",", "3">>
    [] t = "0, 37.6173" -> <<"0", ",", " ", "3", "7", ".", "6", "1", "7", "3">>
    [] t = "1. pushkin" -> <<"1", ".", " ", "p", "u", "s", "h", "k", "i", "n">>
    [] t = "3. pushkin" -> <<"3", ".", " ", "p", "u", "s", "h", "k", "i", "n">>
    [] t = "insta"  -> <<"i", "n", "s", "t", "a">>
    [] t = "@insta" -> <<"@", "i", "n", "s", "t", "a">>
    [] OTHER -> <<"?">>

\* ---------------------------------------------------------------- calendar
IsLeap(y) == y % 4 = 0 /\ (y % 100 # 0 \/ y % 400 = 0)

\* The lengths of the months with a February of 28 days in every year
DaysInMonthNoLeap(m, y) ==
  IF m \in {1, 3, 5, 7, 8, 10, 12} THEN 31
  ELSE IF m \in {4, 6, 9, 11} THEN 30
  ELSE 28

DaysInMonth(m, y) ==
  IF m \in {1, 3, 5, 7, 8, 10, 12} THEN 31
  ELSE IF m \in {4, 6, 9, 11} THEN 30
  ELSE IF IsLeap(y) THEN 29 ELSE 28

\* datetime(year, month, day) raises ValueError unless the date exists.
ValidDate(d, m, y) ==
  /\ y >= 1 /\ y <= 9999
  /\ m >= 1 /\ m <= 12
  /\ d >= 1 /\ d <= DaysInMonth(m, y)

\* datetime.now() of the wizard handlers: the day the model's dialogs happen.
Today == <<15, 3, 2024>>

\* The try block of the free-text date steps: split('.') into DD.MM (current
\* year) or DD.MM.YYYY, int() of every part, then datetime(); any failure is
\* the ValueError branch. The accepted value is the date strftime('%d.%m.%Y')
\* prints, kept as <<day, month, year>>.
ParseDate(s) ==
  LET parts == SplitOn(Strip(s), ".")
      n == Len(parts)
      dd == ParseInt(parts[1])
      mm == IF n >= 2 THEN ParseInt(parts[2]) ELSE Failed
      yy == IF n = 3 THEN ParseInt(parts[3]) ELSE Parsed(Today[3])
  IN IF /\ n \in {2, 3}
        /\ dd.ok /\ mm.ok /\ yy.ok
        /\ ValidDate(dd.v, mm.v, yy.v)
     THEN Parsed(<<dd.v, mm.v, yy.v>>)
     ELSE Failed

\* The texts the model's users send to a free-text date step
DateInputs == {"29.02.2024", "29.02.2023", "15.3", "31.02", "15", "1.2.3.4", "15..3", "abc"}

\* float(message.text.replace(',', '.'))
ParseAmount(s) == ParseFloat(Replace(s, ",", "."))

\* ------------------------------------------------------------------ values
\* What a draft or a stored row holds: a tag and a payload.
None == <<"none", 0>>
Str(t) == <<"str", t>>
Num(n) == <<"num", n>>
Date(d) == <<"date", d>>

\* str.capitalize() on the tokens the model's users type.
Capitalize(t) ==
  CASE t = "lunch" -> "Lunch"
    [] t = "spotify" -> "Spotify"
    [] t = "bike" -> "Bike"
    [] t = "dune" -> "Dune"
    [] t = "drama" -> "Drama"
    [] t = "pushkin" -> "Pushkin"
    [] OTHER -> t

\* ------------------------------------------------------------ button texts
\* The buttons "Otmena" (cancel, EMOJI_CANCEL), "Propustit'" (skip, EMOJI_SKIP)
\* and "Nazad" (back, EMOJI_BACK).
CANCEL == "btn:cancel"
SKIP == "btn:skip"
BACK == "btn:back"
\* BACK and the other menu-back buttons: to finance, to expenses, to learning,
\* to media, to personal.
BackButtons ==
  {BACK, "btn:to_finance", "btn:to_expenses", "btn:to_learning", "btn:to_media",
   "btn:to_personal"}
\* The "Statistika" menu button.
STATS == "btn:stats"
\* A Telegram message without text (a shared location, a photo).
NoText == "<no text>"

Kinds ==
  {"note", "place", "expense", "recurring", "avito", "movie", "series", "tips",
   "wishlist"}

\* The menu button that starts each kind's wizard.
StartButton(k) == "start:" \o k

Users == {4, 42}
\* The user whose dialog the sequential specification follows.
WizardUsers == {42}

NoState == "none"

\* ------------------------------------------------------------------- state
VARIABLES
  fsm,        \* aiogram FSM storage: user id -> current state (NoState: none)
  user_data,  \* user_<kind>_data: kind -> dict user id -> draft (field -> value)
  db,         \* the tables of database.py: a sequence of stored rows
  cache,      \* SimpleCache.cache: key -> <<value, timestamp>>
  clock,      \* time.time(), in seconds
  starts,     \* wizard starts so far (bounded by MaxStarts)
  last,       \* the update handled last: user, handler, text, state before, outcome
  tasks,      \* the handler tasks of the event loop, each with its position
  acc,        \* the task that ran last and the draft or session it touched
  reminders,  \* the rows of the reminders table, in id order
  now,        \* datetime.now(): year, month, day, hour, minute, second
  due,        \* what the last call of get_due_reminders returned
  outbox,     \* the messages handed to bot.send_message by the reminder loop
  ticks,      \* iterations of the reminder loop so far (bounded by MaxTicks)
  report,     \* the period of the loop's last iteration and the failed deliveries
  ret,        \* the last direct call of the cache: operation, argument, result
  state_data, \* aiogram FSM storage: user id -> the data kept with the state
  edits       \* calls of Database.update_place so far (bounded by MaxEdits)

vars == <<fsm, user_data, db, cache, clock, starts, last, tasks, acc,
          reminders, now, due, outbox, ticks, report, ret, state_data, edits>>
\* The reminder loop's part of the state.
sched == <<reminders, now, due, outbox, ticks, report>>
\* The edit mode's part of the state.
editing == <<state_data, edits>>
\* What the handlers of the wizards leave alone: the tasks of the event loop,
\* the reminder loop and the record of the direct cache calls.
aside == <<tasks, acc, sched, ret, editing>>
\* No payroll period in an iteration; no cache call yet.
NoReport == [on |-> FALSE, start_date |-> <<>>, end_date |-> <<>>, failed |-> {}]
NoCall == [op |-> "none", key |-> <<>>, value |-> <<"none", 0>>, removed |-> {}]

\* ---------------------------------------------------------------- routing
\* aiogram tries the router's handlers in the order of registration (the
\* order of the decorators in bot.py) and runs the first whose filters match:
\* a handler filtered on a text alone matches in every state.
Text(t) == [kind |-> "text", text |-> t]
Location == [kind |-> "location", text |-> NoText]
Photo == [kind |-> "photo", text |-> NoText]

\* Line of the decorator of the handler filtered on the text t alone (0: none).
GlobalLine(t) ==
  CASE t = BACK -> 739
    [] t = "btn:to_finance" -> 748
    [] t = "btn:to_expenses" -> 758
    [] t = "btn:to_learning" -> 768
    [] t = "btn:to_media" -> 778
    [] t = "btn:to_personal" -> 788
    [] t = StartButton("note") -> 811
    [] t = StartButton("place") -> 1088
    [] t = STATS -> 2388
    [] t = StartButton("expense") -> 2521
    [] t = StartButton("recurring") -> 2740
    [] t = StartButton("avito") -> 2917
    [] t = StartButton("movie") -> 3096
    [] t = StartButton("series") -> 3419
    [] t = StartButton("tips") -> 3905
    [] t = StartButton("wishlist") -> 4291
    [] OTHER -> 0

GlobalHandler(t) ==
  CASE t = BACK -> "back_to_main_menu"
    [] t = "btn:to_finance" -> "back_to_finance_menu"
    [] t = "btn:to_expenses" -> "back_to_expenses_menu"
    [] t = "btn:to_learning" -> "back_to_learning_menu"
    [] t = "btn:to_media" -> "back_to_media_menu"
    [] t = "btn:to_personal" -> "back_to_personal_menu"
    [] t = StartButton("note") -> "add_note_start"
    [] t = StartButton("place") -> "add_place_start"
    [] t = STATS -> "show_stats"
    [] t = StartButton("expense") -> "add_expense_start"
    [] t = StartButton("recurring") -> "add_recurring_expense_start"
    [] t = StartButton("avito") -> "add_avito_start"
    [] t = StartButton("movie") -> "add_movie_start"
    [] t = StartButton("series") -> "add_series_start"
    [] t = StartButton("tips") -> "add_tips_start"
    [] t = StartButton("wishlist") -> "add_wishlist_start"
    [] OTHER -> "unhandled"

\* The handlers filtered on a state: [line of the decorator, function, kind].
StateTable ==
  [st \in {NoState} |-> [line |-> 0, handler |-> "unhandled", kind |-> "none"]] @@
  ("QuickNoteStates:waiting_for_category"
     :> [line |-> 821, handler |-> "process_note_category", kind |-> "note"]) @@
  ("QuickNoteStates:waiting_for_text"
     :> [line |-> 842, handler |-> "process_note_text", kind |-> "note"]) @@
  ("AddPlaceStates:waiting_for_name"
     :> [line |-> 1098, handler |-> "process_place_name", kind |-> "place"]) @@
  ("AddPlaceStates:choosing_from_search"
     :> [line |-> 1150, handler |-> "process_place_selection", kind |-> "place"]) @@
  ("AddPlaceStates:choosing_fill_method"
     :> [line |-> 1207, handler |-> "process_fill_method", kind |-> "place"]) @@
  ("AddPlaceStates:waiting_for_type"
     :> [line |-> 1261, handler |-> "process_place_type", kind |-> "place"]) @@
  ("AddPlaceStates:waiting_for_cuisine"
     :> [line |-> 1294, handler |-> "process_cuisine", kind |-> "place"]) @@
  ("AddPlaceStates:waiting_for_price"
     :> [line |-> 1313, handler |-> "process_price_category", kind |-> "place"]) @@
  ("AddPlaceStates:waiting_for_status"
     :> [line |-> 1331, handler |-> "process_status", kind |-> "place"]) @@
  ("AddPlaceStates:waiting_for_review"
     :> [line |-> 1373, handler |-> "process_review", kind |-> "place"]) @@
  ("AddPlaceStates:waiting_for_address"
     :> [line |-> 1399, handler |-> "process_place_address", kind |-> "place"]) @@
  ("AddPlaceStates:waiting_for_description"
     :> [line |-> 1422, handler |-> "process_place_description", kind |-> "place"]) @@
  ("AddPlaceStates:waiting_for_social"
     :> [line |-> 1448, handler |-> "process_place_social", kind |-> "place"]) @@
  ("AddPlaceStates:waiting_for_location"
     :> [line |-> 1479, handler |-> "process_location", kind |-> "place"]) @@
  ("AddExpenseStates:waiting_for_category"
     :> [line |-> 2531, handler |-> "process_expense_category", kind |-> "expense"]) @@
  ("AddExpenseStates:waiting_for_name"
     :> [line |-> 2547, handler |-> "process_expense_name", kind |-> "expense"]) @@
  ("AddExpenseStates:waiting_for_amount"
     :> [line |-> 2563, handler |-> "process_expense_amount", kind |-> "expense"]) @@
  ("AddExpenseStates:waiting_for_date_choice"
     :> [line |-> 2588, handler |-> "process_expense_date_choice", kind |-> "expense"]) @@
  ("AddExpenseStates:waiting_for_date"
     :> [line |-> 2615, handler |-> "process_expense_date", kind |-> "expense"]) @@
  ("AddExpenseStates:waiting_for_note_choice"
     :> [line |-> 2650, handler |-> "process_expense_note_choice", kind |-> "expense"]) @@
  ("AddExpenseStates:waiting_for_note"
     :> [line |-> 2671, handler |-> "process_expense_note", kind |-> "expense"]) @@
  ("AddRecurringExpenseStates:waiting_for_name"
     :> [line |-> 2750, handler |-> "process_recurring_expense_name", kind |-> "recurring"]) @@
  ("AddRecurringExpenseStates:waiting_for_amount"
     :> [line |-> 2766, handler |-> "process_recurring_expense_amount", kind |-> "recurring"]) @@
  ("AddRecurringExpenseStates:waiting_for_date"
     :> [line |-> 2793, handler |-> "process_recurring_expense_date", kind |-> "recurring"]) @@
  ("AddAvitoStates:waiting_for_item_name"
     :> [line |-> 2927, handler |-> "process_avito_item_name", kind |-> "avito"]) @@
  ("AddAvitoStates:waiting_for_amount"
     :> [line |-> 2944, handler |-> "process_avito_amount", kind |-> "avito"]) @@
  ("AddAvitoStates:waiting_for_date"
     :> [line |-> 2971, handler |-> "process_avito_date", kind |-> "avito"]) @@
  ("AddMovieStates:waiting_for_title"
     :> [line |-> 3106, handler |-> "process_movie_title", kind |-> "movie"]) @@
  ("AddMovieStates:waiting_for_genre"
     :> [line |-> 3122, handler |-> "process_movie_genre", kind |-> "movie"]) @@
  ("AddMovieStates:waiting_for_year"
     :> [line |-> 3139, handler |-> "process_movie_year", kind |-> "movie"]) @@
  ("AddMovieStates:waiting_for_status"
     :> [line |-> 3165, handler |-> "process_movie_status", kind |-> "movie"]) @@
  ("AddMovieStates:waiting_for_rating"
     :> [line |-> 3185, handler |-> "process_movie_rating", kind |-> "movie"]) @@
  ("AddMovieStates:waiting_for_notes"
     :> [line |-> 3209, handler |-> "process_movie_notes", kind |-> "movie"]) @@
  ("AddSeriesStates:waiting_for_title"
     :> [line |-> 3429, handler |-> "process_series_title", kind |-> "series"]) @@
  ("AddSeriesStates:waiting_for_genre"
     :> [line |-> 3445, handler |-> "process_series_genre", kind |-> "series"]) @@
  ("AddSeriesStates:waiting_for_year"
     :> [line |-> 3461, handler |-> "process_series_year", kind |-> "series"]) @@
  ("AddSeriesStates:waiting_for_seasons"
     :> [line |-> 3486, handler |-> "process_series_seasons", kind |-> "series"]) @@
  ("AddSeriesStates:waiting_for_episodes"
     :> [line |-> 3511, handler |-> "process_series_episodes", kind |-> "series"]) @@
  ("AddSeriesStates:waiting_for_status"
     :> [line |-> 3536, handler |-> "process_series_status", kind |-> "series"]) @@
  ("AddSeriesStates:waiting_for_rating"
     :> [line |-> 3556, handler |-> "process_series_rating", kind |-> "series"]) @@
  ("AddSeriesStates:waiting_for_notes"
     :> [line |-> 3588, handler |-> "process_series_notes", kind |-> "series"]) @@
  ("AddTipsStates:waiting_for_hours"
     :> [line |-> 3916, handler |-> "process_tips_hours", kind |-> "tips"]) @@
  ("AddTipsStates:waiting_for_card"
     :> [line |-> 3943, handler |-> "process_tips_card", kind |-> "tips"]) @@
  ("AddTipsStates:waiting_for_netmonet"
     :> [line |-> 3972, handler |-> "process_tips_netmonet", kind |-> "tips"]) @@
  ("AddTipsStates:waiting_for_cash"
     :> [line |-> 4001, handler |-> "process_tips_cash", kind |-> "tips"]) @@
  ("AddTipsStates:waiting_for_date"
     :> [line |-> 4031, handler |-> "process_tips_date", kind |-> "tips"]) @@
  ("AddWishlistStates:waiting_for_size_category"
     :> [line |-> 4302, handler |-> "process_wishlist_size", kind |-> "wishlist"]) @@
  ("AddWishlistStates:waiting_for_type_category"
     :> [line |-> 4323, handler |-> "process_wishlist_type", kind |-> "wishlist"]) @@
  ("AddWishlistStates:waiting_for_name"
     :> [line |-> 4345, handler |-> "process_wishlist_name", kind |-> "wishlist"]) @@
  ("AddWishlistStates:waiting_for_price"
     :> [line |-> 4363, handler |-> "process_wishlist_price", kind |-> "wishlist"]) @@
  ("AddWishlistStates:waiting_for_priority"
     :> [line |-> 4389, handler |-> "process_wishlist_priority", kind |-> "wishlist"]) @@
  ("AddWishlistStates:waiting_for_photo"
     :> [line |-> 4411, handler |-> "process_wishlist_photo", kind |-> "wishlist"]) @@
  ("AddWishlistStates:waiting_for_link"
     :> [line |-> 4437, handler |-> "process_wishlist_link", kind |-> "wishlist"])

\* The states of the add-wizards, and the wizard kind a state belongs to.
WizardStates == DOMAIN StateTable \ {NoState}
KindOf(st) == StateTable[st].kind

\* "Zavershit' bez geolokacii", the finish button of the location step.
FINISH == "btn:finish_without_location"

\* The four handlers of AddPlaceStates.waiting_for_location, in order: a shared
\* location (1479), the finish button (1486), any text (1491), the cancel
\* button (1536). A text is taken by the any-text handler before the cancel
\* handler is tried.
LocationHandler(m) ==
  IF m.kind = "location" THEN "process_location"
  ELSE IF m.kind = "text" /\ m.text = FINISH THEN "process_skip_location"
  ELSE IF m.kind = "text" THEN "process_text_coordinates"
  ELSE "unhandled"

\* The handler that gets message m of a user whose FSM state is st.
Route(st, m) ==
  LET g == IF m.kind = "text" THEN GlobalLine(m.text) ELSE 0
      s == StateTable[st].line
  IN IF g > 0 /\ (s = 0 \/ g < s) THEN GlobalHandler(m.text)
     ELSE IF s = 0 THEN "unhandled"
     ELSE IF st = "AddPlaceStates:waiting_for_location" THEN LocationHandler(m)
     ELSE StateTable[st].handler

\* ------------------------------------------------------------ draft store
\* user_<kind>_data is a Python dict: a draft exists when the user id is a key.
HasDraft(k, u) == u \in DOMAIN user_data[k]
Draft(k, u) == user_data[k][u]
EmptyDraft == <<>>
\* d[f] = v
Put(d, f, v) == (f :> v) @@ d
\* d.get(f): None when the field is missing
Field(d, f) == IF f \in DOMAIN d THEN d[f] ELSE None
\* d.get(f, v)
FieldOr(d, f, v) == IF f \in DOMAIN d THEN d[f] ELSE v
WithDraft_alone(k, u, d) == [user_data EXCEPT ![k] = (u :> d)]
\* user_<kind>_data[u] = d
WithDraft(k, u, d) == [user_data EXCEPT ![k] = (u :> d) @@ @]
\* del user_<kind>_data[u]  /  user_<kind>_data.pop(u, None)
WithoutDraft(k, u) == [user_data EXCEPT ![k] = [w \in (DOMAIN @) \ {u} |-> @[w]]]

\* ------------------------------------------------------------- cache keys
RECURSIVE Digits(_)
\* str(n) of a non-negative integer, as characters
Digits(n) ==
  LET c == <<"0", "1", "2", "3", "4", "5", "6", "7", "8", "9">>[(n % 10) + 1]
  IN IF n < 10 THEN <<c>> ELSE Append(Digits(n \div 10), c)

\* pattern in key (substring test of SimpleCache.clear)
Contains(pat, key) ==
  \E i \in 0..(Len(key) - Len(pat)) : SubSeq(key, i + 1, i + Len(pat)) = pat

\* f"stats_{user_id}" and f"_{user_id}"
StatsKey(u) == <<"s", "t", "a", "t", "s", "_">> \o Digits(u)
UserPattern(u) == <<"_">> \o Digits(u)

\* SimpleCache(ttl_seconds=600)
ttl == 600

\* SimpleCache.get as it would be if an entry lived through its last second
CacheGetInclusive(c, key, time) ==
  IF key \in DOMAIN c /\ time - c[key][2] <= ttl THEN c[key][1] ELSE None
\* SimpleCache.get: the value of a live entry, None for a missing or expired one
CacheGet(c, key, time) ==
  IF key \in DOMAIN c /\ time - c[key][2] < ttl THEN c[key][1] ELSE None
\* SimpleCache.get deletes the entry it finds expired
CacheAfterGet(c, key, time) ==
  IF key \in DOMAIN c /\ ~(time - c[key][2] < ttl)
  THEN [k \in (DOMAIN c) \ {key} |-> c[k]] ELSE c
\* SimpleCache.set
CacheSet(c, key, value, time) == (key :> <<value, time>>) @@ c
\* SimpleCache.clear as it would be if it ignored its pattern
CacheClearAll(c, pat) == [k \in {} |-> c[k]]
\* SimpleCache.clear(pattern)
CacheClear(c, pat) == [k \in {x \in DOMAIN c : ~Contains(pat, x)} |-> c[k]]

\* --------------------------------------------------------------- database
\* A stored row: the table, the owner, the column values passed to add_*.
Row(table, u, data) == [table |-> table, user_id |-> u, data |-> data, live |-> TRUE]
\* Database.count_user_places
CountPlaces(rows, u) ==
  Cardinality({i \in DOMAIN rows :
     rows[i].table = "places" /\ rows[i].user_id = u /\ rows[i].live})

\* ------------------------------------------------------------ observation
\* The end-to-end run of the expense wizard: start, category, name, the
\* amount "450", today, skip the note. Progress n becomes n + 1 when the next
\* input of the run is handled, 1 on a start of the wizard, 0 otherwise.
RunStep(n, h, t) ==
  IF h = "add_expense_start" THEN 1
  ELSE IF n = 1 /\ h = "process_expense_category" /\ t = "food" THEN 2
  ELSE IF n = 2 /\ h = "process_expense_name" /\ t = "lunch" THEN 3
  ELSE IF n = 3 /\ h = "process_expense_amount" /\ t = "450" THEN 4
  ELSE IF n = 4 /\ h = "process_expense_date_choice" /\ t = "btn:today" THEN 5
  ELSE IF n = 5 /\ h = "process_expense_note_choice" /\ t = SKIP THEN 6
  ELSE 0

\* Record the update just handled: who sent it, which handler took it, the
\* text, the FSM state it arrived in and the branch the handler took; base is
\* the rows of the database when the last wizard was started.
Seen(u, h, t, r) ==
  last' = [user |-> u, handler |-> h, text |-> t, state |-> fsm[u],
           result |-> r, run |-> RunStep(last.run, h, t),
           base |-> IF r = "started" THEN db ELSE last.base,
           export |-> "none"]

\* The same for a commit, with what became of its spreadsheet export.
SeenExport(u, h, t, r, e) ==
  last' = [user |-> u, handler |-> h, text |-> t, state |-> fsm[u],
           result |-> r, run |-> RunStep(last.run, h, t),
           base |-> last.base, export |-> e]

\* ---------------------------------------------------------- shared pieces
\* await state.clear()
Clear(u) == fsm' = [fsm EXCEPT ![u] = NoState]
\* await state.set_state(st)
SetState(u, st) == fsm' = [fsm EXCEPT ![u] = st]

Start_merging(k, u, h, first) ==
  /\ starts < MaxStarts
  /\ starts' = starts + 1
  /\ user_data' = IF HasDraft(k, u) THEN user_data ELSE WithDraft(k, u, EmptyDraft)
  /\ SetState(u, first)
  /\ Seen(u, h, StartButton(k), "started")
  /\ UNCHANGED <<db, cache, clock, aside>>

\* user_<kind>_data[u] = {}; await state.set_state(first)
Start(k, u, h, first) ==
  /\ starts < MaxStarts
  /\ starts' = starts + 1
  /\ user_data' = WithDraft(k, u, EmptyDraft)
  /\ SetState(u, first)
  /\ Seen(u, h, StartButton(k), "started")
  /\ UNCHANGED <<db, cache, clock, aside>>

\* Cancel branch: await state.clear(); del user_<kind>_data[u]. The del
\* raises KeyError, after the state is cleared, when there is no draft.
CancelDel(k, u, h, t) ==
  /\ Clear(u)
  /\ user_data' = IF HasDraft(k, u) THEN WithoutDraft(k, u) ELSE user_data
  /\ Seen(u, h, t, IF HasDraft(k, u) THEN "cancelled" ELSE "error")

\* Cancel branch that only clears the state: await state.clear()
CancelKeep(u, h, t) ==
  /\ Clear(u)
  /\ UNCHANGED user_data
  /\ Seen(u, h, t, "cancelled")

Store_forgetting(k, u, h, t, f, v, next) ==
  IF HasDraft(k, u)
  THEN /\ UNCHANGED user_data
       /\ SetState(u, next)
       /\ Seen(u, h, t, "stored")
  ELSE /\ UNCHANGED <<fsm, user_data>>
       /\ Seen(u, h, t, "error")

\* user_<kind>_data[u][f] = v; await state.set_state(next). The subscript
\* raises KeyError, before anything changes, when there is no draft.
Store(k, u, h, t, f, v, next) ==
  IF HasDraft(k, u)
  THEN /\ user_data' = WithDraft(k, u, Put(Draft(k, u), f, v))
       /\ SetState(u, next)
       /\ Seen(u, h, t, "stored")
  ELSE /\ UNCHANGED <<fsm, user_data>>
       /\ Seen(u, h, t, "error")

\* await state.set_state(next), nothing stored
Advance(u, h, t, next) ==
  /\ SetState(u, next)
  /\ UNCHANGED user_data
  /\ Seen(u, h, t, "advanced")

\* The branch that answers with an error message and returns
Reject(u, h, t) ==
  /\ UNCHANGED <<fsm, user_data>>
  /\ Seen(u, h, t, "rejected")

\* A branch that does nothing at all (no answer either)
Ignore(u, h, t) ==
  /\ UNCHANGED <<fsm, user_data>>
  /\ Seen(u, h, t, "ignored")

\* ----------------------------------------------------------------- start
\* The module-level state of bot.py after import: empty draft dicts, an
\* empty cache, no FSM state; the database holds no rows yet.
Init ==
  /\ fsm = [u \in Users |-> NoState]
  /\ user_data = [k \in Kinds |-> <<>>]
  /\ db = <<>>
  /\ cache = <<>>
  /\ clock = 0
  /\ starts = 0
  /\ last = [user |-> 0, handler |-> "none", text |-> NoText, state |-> NoState,
             result |-> "none", run |-> 0, base |-> <<>>, export |-> "none"]
  /\ tasks = <<>>
  /\ acc = [task |-> 0, user |-> 0, kind |-> "none"]
  /\ reminders = <<>>
  /\ now = [y |-> 2024, mo |-> 3, d |-> 15, h |-> 12, mi |-> 0, s |-> 0]
  /\ due = [at |-> now, rows |-> <<>>, seen |-> <<>>]
  /\ outbox = <<>>
  /\ ticks = 0
  /\ report = NoReport
  /\ ret = NoCall
  /\ state_data = [u \in Users |-> <<>>]
  /\ edits = 0

\* ------------------------------------------------------ menu and statistics
\* back_to_main_menu, back_to_finance_menu, back_to_expenses_menu,
\* back_to_learning_menu, back_to_media_menu, back_to_personal_menu: each is
\* filtered on its button text alone and does await state.clear(), no more.
back_to_menu(u) ==
  \E t \in BackButtons :
    /\ Route(fsm[u], Text(t)) = GlobalHandler(t)
    /\ Clear(u)
    /\ Seen(u, GlobalHandler(t), t, "cleared")
    /\ UNCHANGED <<user_data, db, cache, clock, starts, aside>>

\* show_stats, handled in one piece: the cached count, or on a miss the
\* count of the database, which is then cached.
show_stats(u) ==
  /\ Route(fsm[u], Text(STATS)) = "show_stats"
  /\ LET hit == CacheGet(cache, StatsKey(u), clock)
         c1 == CacheAfterGet(cache, StatsKey(u), clock)
     IN cache' = IF hit = None
                 THEN CacheSet(c1, StatsKey(u), Num(CountPlaces(db, u)), clock)
                 ELSE c1
  /\ Seen(u, "show_stats", STATS, "shown")
  /\ UNCHANGED <<fsm, user_data, db, clock, starts, aside>>

\* The keyword arguments of a db.add_* call read from draft d with d.get
Columns(d, cols) == [f \in cols |-> Field(d, f)]

\* What the spreadsheet export of a commit can come to. google_sheets.add_*
\* returns False at once when the sync is not enabled ("off"), True after
\* the row is appended ("ok"), and False after catching any exception
\* ("failed"); nothing escapes to the handler. The wishlist commit exports
\* nothing, and a note is exported only when it was stored.
ExportOutcomes(k, stored) ==
  IF k = "wishlist" \/ (k = "note" /\ ~stored)
  THEN {"none"}
  ELSE {"off", "ok", "failed"}

Commit_export_raising(k, u, h, t, d, table, required, row) ==
  IF ~(required \subseteq DOMAIN d)
  THEN /\ user_data' = WithDraft(k, u, d)
       /\ UNCHANGED <<fsm, db>>
       /\ Seen(u, h, t, "error")
  ELSE \E stored \in BOOLEAN :
         \E e \in ExportOutcomes(k, stored) :
           /\ db' = IF stored
                    THEN Append(db, Row(table, u, row))
                    ELSE db
           /\ IF e = "failed"
              THEN /\ UNCHANGED fsm
                   /\ user_data' = WithDraft(k, u, d)
              ELSE /\ Clear(u)
                   /\ user_data' = WithoutDraft(k, u)
           /\ SeenExport(u, h, t, IF stored THEN "committed" ELSE "commit_failed", e)

\* The commit of a wizard, with the draft d the handler has just written:
\* the subscripts of the required fields raise KeyError on a missing one,
\* before anything is stored; await db.add_*(...) returns the new id, or None
\* when storing failed (every Database.add_* catches all exceptions); then
\* await state.clear() and del user_<kind>_data[u], whatever add_* returned.
Commit(k, u, h, t, d, table, required, row) ==
  IF ~(required \subseteq DOMAIN d)
  THEN /\ user_data' = WithDraft(k, u, d)
       /\ UNCHANGED <<fsm, db>>
       /\ Seen(u, h, t, "error")
  ELSE \E stored \in BOOLEAN :
         \E e \in ExportOutcomes(k, stored) :
           /\ db' = IF stored
                    THEN Append(db, Row(table, u, row))
                    ELSE db
           /\ Clear(u)
           /\ user_data' = WithoutDraft(k, u)
           /\ SeenExport(u, h, t, IF stored THEN "committed" ELSE "commit_failed", e)

\* ------------------------------------------------------------ place wizard
\* What search_place_yandex can return for the query: nothing (no API key, an
\* HTTP error, an exception, no match) or a list of places.
SearchHit(n) ==
  [name |-> "Pushkin", description |-> "Tverskoy 26", address |-> "Moscow, Tverskoy 26",
   latitude |-> 557650 + n, longitude |-> 376040 + n]
SearchOutcomes == {<<>>, <<SearchHit(1), SearchHit(2)>>}

\* What get_place_details_yandex can return: {} or the details of the place.
DetailOutcomes ==
  {<<>>, [address |-> Str("Tverskoy boulevard 26"), cuisine |-> Str("russian"),
          working_hours |-> Str("12-24")]}

\* CUISINE_TYPES: button text -> stored cuisine
CUISINE_TYPES == [b \in {"btn:italian"} |-> "italian"]

add_place_start(u) ==
  /\ Route(fsm[u], Text(StartButton("place"))) = "add_place_start"
  /\ Start("place", u, "add_place_start", "AddPlaceStates:waiting_for_name")

\* The steps of the place wizard that store the text unless it is the skip
\* button (review, address, description); cancel clears the state only.
PlaceOptionalStep(u, h, f, next, texts) ==
  \E t \in texts :
    /\ Route(fsm[u], Text(t)) = h
    /\ IF t = CANCEL THEN CancelKeep(u, h, t)
       ELSE IF t = SKIP THEN Advance(u, h, t, next)
       ELSE Store("place", u, h, t, f, Str(t), next)
    /\ UNCHANGED <<db, cache, clock, starts, aside>>

process_place_name(u) ==
  \E t \in {CANCEL, "pushkin"}, places \in SearchOutcomes :
    /\ Route(fsm[u], Text(t)) = "process_place_name"
    /\ IF t = CANCEL THEN CancelKeep(u, "process_place_name", t)
       ELSE IF ~HasDraft("place", u)
            THEN UNCHANGED <<fsm, user_data>> /\ Seen(u, "process_place_name", t, "error")
       ELSE IF places = <<>>
            THEN /\ user_data' = WithDraft("place", u,
                        Put(Put(Draft("place", u), "name", Str(Capitalize(t))),
                            "yandex_data", None))
                 /\ SetState(u, "AddPlaceStates:waiting_for_type")
                 /\ Seen(u, "process_place_name", t, "stored")
       ELSE /\ user_data' = WithDraft("place", u,
                   Put(Put(Draft("place", u), "search_results", <<"list", places>>),
                       "search_query", Str(t)))
            /\ SetState(u, "AddPlaceStates:choosing_from_search")
            /\ Seen(u, "process_place_name", t, "stored")
    /\ UNCHANGED <<db, cache, clock, starts, aside>>

process_place_selection(u) ==
  \E t \in {CANCEL, "btn:manual_entry", "1. pushkin", "3. pushkin", "abc"} :
    /\ Route(fsm[u], Text(t)) = "process_place_selection"
    /\ LET h == "process_place_selection"
           d == IF HasDraft("place", u) THEN Draft("place", u) ELSE EmptyDraft
           query == FieldOr(d, "search_query", Str("place"))
           num == ParseInt(SplitOn(Chars(t), ".")[1])
           search_results == FieldOr(d, "search_results", <<"list", <<>>>>)[2]
       IN IF t = CANCEL THEN CancelKeep(u, h, t)
          ELSE IF ~HasDraft("place", u)
               THEN UNCHANGED <<fsm, user_data>> /\ Seen(u, h, t, "error")
          ELSE IF t = "btn:manual_entry"
               THEN /\ user_data' = WithDraft("place", u,
                           Put(Put(d, "name", Str(Capitalize(query[2]))), "yandex_data", None))
                    /\ SetState(u, "AddPlaceStates:waiting_for_type")
                    /\ Seen(u, h, t, "stored")
          ELSE IF ~num.ok \/ ~(0 <= num.v - 1 /\ num.v - 1 < Len(search_results))
               THEN Reject(u, h, t)
          ELSE /\ user_data' = WithDraft("place", u,
                      Put(Put(d, "selected_yandex_place", <<"place", search_results[num.v]>>),
                          "name", Str(search_results[num.v].name)))
               /\ SetState(u, "AddPlaceStates:choosing_fill_method")
               /\ Seen(u, h, t, "stored")
    /\ UNCHANGED <<db, cache, clock, starts, aside>>

\* The draft process_fill_method writes in its automatic branch, from the
\* selected place sel and the details returned by get_place_details_yandex.
AutoFill(d, sel, details) ==
  Put(Put(Put(Put(Put(Put(d,
    "name", Str(sel.name)),
    "address", IF Field(details, "address") # None THEN details["address"]
               ELSE Str(sel.address)),
    "latitude", Num(sel.latitude)),
    "longitude", Num(sel.longitude)),
    "cuisine", Field(details, "cuisine")),
    "working_hours", Field(details, "working_hours"))

\* The draft process_fill_method writes in its manual branch.
ManualFill(d, sel) ==
  Put(Put(d, "latitude", Num(sel.latitude)), "longitude", Num(sel.longitude))

process_fill_method(u) ==
  \E t \in {CANCEL, "btn:fill_auto", "btn:fill_manual", "abc"}, details \in DetailOutcomes :
    /\ Route(fsm[u], Text(t)) = "process_fill_method"
    /\ LET h == "process_fill_method"
           d == IF HasDraft("place", u) THEN Draft("place", u) ELSE EmptyDraft
           selected_place == Field(d, "selected_yandex_place")
       IN IF t = CANCEL THEN CancelKeep(u, h, t)
          ELSE IF ~HasDraft("place", u)
               THEN UNCHANGED <<fsm, user_data>> /\ Seen(u, h, t, "error")
          ELSE IF t \notin {"btn:fill_auto", "btn:fill_manual"} THEN Reject(u, h, t)
          ELSE IF selected_place = None
               THEN UNCHANGED <<fsm, user_data>> /\ Seen(u, h, t, "error")
          ELSE /\ user_data' = WithDraft("place", u,
                      IF t = "btn:fill_auto" THEN AutoFill(d, selected_place[2], details)
                      ELSE ManualFill(d, selected_place[2]))
               /\ SetState(u, "AddPlaceStates:waiting_for_type")
               /\ Seen(u, h, t, "stored")
    /\ UNCHANGED <<db, cache, clock, starts, aside>>

process_place_type_flat(u) ==
  \E t \in {CANCEL, SKIP, "btn:restaurant", "btn:bar", "btn:cafe", "btn:park"} :
    /\ Route(fsm[u], Text(t)) = "process_place_type"
    /\ IF t = CANCEL THEN CancelKeep(u, "process_place_type", t)
       ELSE Store("place", u, "process_place_type", t, "place_type", Str(t),
                  IF t = "btn:restaurant" THEN "AddPlaceStates:waiting_for_cuisine"
                  ELSE "AddPlaceStates:waiting_for_status")
    /\ UNCHANGED <<db, cache, clock, starts, aside>>

\* Any text is stored as the type; the next step depends on it.
process_place_type(u) ==
  \E t \in {CANCEL, SKIP, "btn:restaurant", "btn:bar", "btn:cafe", "btn:park"} :
    /\ Route(fsm[u], Text(t)) = "process_place_type"
    /\ IF t = CANCEL THEN CancelKeep(u, "process_place_type", t)
       ELSE Store("place", u, "process_place_type", t, "place_type", Str(t),
                  IF t = "btn:restaurant" THEN "AddPlaceStates:waiting_for_cuisine"
                  ELSE IF t \in {"btn:bar", "btn:cafe"} THEN "AddPlaceStates:waiting_for_price"
                  ELSE "AddPlaceStates:waiting_for_status")
    /\ UNCHANGED <<db, cache, clock, starts, aside>>

\* A text that is no cuisine button stores nothing, and the wizard goes on
\* to the price step all the same.
process_cuisine(u) ==
  \E t \in {CANCEL, "btn:italian", "abc"} :
    /\ Route(fsm[u], Text(t)) = "process_cuisine"
    /\ IF t = CANCEL THEN CancelKeep(u, "process_cuisine", t)
       ELSE IF t \in DOMAIN CUISINE_TYPES
            THEN Store("place", u, "process_cuisine", t, "cuisine", Str(CUISINE_TYPES[t]),
                       "AddPlaceStates:waiting_for_price")
       ELSE Advance(u, "process_cuisine", t, "AddPlaceStates:waiting_for_price")
    /\ UNCHANGED <<db, cache, clock, starts, aside>>

process_price_category(u) ==
  \E t \in {CANCEL, "btn:price2"} :
    /\ Route(fsm[u], Text(t)) = "process_price_category"
    /\ IF t = CANCEL THEN CancelKeep(u, "process_price_category", t)
       ELSE Store("place", u, "process_price_category", t, "price_category", Str(t),
                  "AddPlaceStates:waiting_for_status")
    /\ UNCHANGED <<db, cache, clock, starts, aside>>

\* A text that is neither status button is dropped without an answer.
process_status(u) ==
  \E t \in {CANCEL, "btn:visited", "btn:planned", "abc"} :
    /\ Route(fsm[u], Text(t)) = "process_status"
    /\ IF t = CANCEL THEN CancelKeep(u, "process_status", t)
       ELSE IF t = "btn:visited"
            THEN Store("place", u, "process_status", t, "status", Str("visited"),
                       "AddPlaceStates:waiting_for_review")
       ELSE IF t = "btn:planned"
            THEN Store("place", u, "process_status", t, "status", Str("planned"),
                       "AddPlaceStates:waiting_for_address")
       ELSE Ignore(u, "process_status", t)
    /\ UNCHANGED <<db, cache, clock, starts, aside>>

process_review(u) ==
  /\ StateTable[fsm[u]].handler = "process_review"
  /\ PlaceOptionalStep(u, "process_review", "review", "AddPlaceStates:waiting_for_address",
     {CANCEL, SKIP, "cosy"})

process_place_address(u) ==
  /\ StateTable[fsm[u]].handler = "process_place_address"
  /\ PlaceOptionalStep(u, "process_place_address", "address",
     "AddPlaceStates:waiting_for_description", {CANCEL, SKIP, "arbat 1"})

process_place_description(u) ==
  /\ StateTable[fsm[u]].handler = "process_place_description"
  /\ PlaceOptionalStep(u, "process_place_description", "description",
     "AddPlaceStates:waiting_for_social", {CANCEL, SKIP})

\* text.strip(), with '@' put in front unless it starts with one
SocialLink(s) == IF Strip(s) # <<>> /\ Head(Strip(s)) = "@" THEN Strip(s) ELSE <<"@">> \o Strip(s)

process_place_social(u) ==
  \E t \in {CANCEL, SKIP, "insta"} :
    /\ Route(fsm[u], Text(t)) = "process_place_social"
    /\ IF t = CANCEL THEN CancelKeep(u, "process_place_social", t)
       ELSE IF t = SKIP
            THEN Advance(u, "process_place_social", t, "AddPlaceStates:waiting_for_location")
       ELSE Store("place", u, "process_place_social", t, "social_link",
                  <<"chars", SocialLink(Chars(t))>>, "AddPlaceStates:waiting_for_location")
    /\ UNCHANGED <<db, cache, clock, starts, aside>>

\* The keyword arguments save_place reads from the draft with data.get
PlaceColumns(d) ==
  Columns(d, {"name", "place_type", "price_category", "review", "address", "description",
              "latitude", "longitude", "social_link", "cuisine", "working_hours"})
  @@ [status |-> FieldOr(d, "status", Str("visited"))]

\* save_place, with the draft d the calling handler has just written ({} when
\* the user has none): await db.add_place(...) returns the id, or None when
\* storing failed; the user's cache entries are cleared; the export is handed
\* to a task of its own that nobody awaits; the draft is popped and the state
\* cleared.
save_place(u, h, t, d) ==
  \E stored \in BOOLEAN :
    \E e \in ExportOutcomes("place", stored) :
      /\ db' = IF stored THEN Append(db, Row("places", u, PlaceColumns(d))) ELSE db
      /\ cache' = CacheClear(cache, UserPattern(u))
      /\ user_data' = WithoutDraft("place", u)
      /\ Clear(u)
      /\ SeenExport(u, h, t, IF stored THEN "committed" ELSE "commit_failed", e)

\* The coordinates of the location a user shares.
SharedLocation == [latitude |-> 557558, longitude |-> 376173]

process_location(u) ==
  /\ Route(fsm[u], Location) = "process_location"
  /\ IF HasDraft("place", u)
     THEN save_place(u, "process_location", NoText,
                     Put(Put(Draft("place", u), "latitude", Num(SharedLocation.latitude)),
                         "longitude", Num(SharedLocation.longitude)))
     ELSE /\ UNCHANGED <<fsm, user_data, db, cache>>
          /\ Seen(u, "process_location", NoText, "error")
  /\ UNCHANGED <<clock, starts, aside>>

process_skip_location(u) ==
  /\ Route(fsm[u], Text(FINISH)) = "process_skip_location"
  /\ save_place(u, "process_skip_location", FINISH,
                IF HasDraft("place", u) THEN Draft("place", u) ELSE EmptyDraft)
  /\ UNCHANGED <<clock, starts, aside>>

\* The texts the model's users send to the location step as coordinates
CoordInputs ==
  {"55.7558, 37.6173", "55.7558 37.6173", "-90,180", "91,200", "55.7558", "1,2,3", "abc"}

\* The parse of the coordinates as it would be without the range test
ParseCoordinatesNoRange(s) ==
  LET parts == SplitWs(Replace(Strip(s), ",", " "))
      lat == IF Len(parts) = 2 THEN ParseFloat(parts[1]) ELSE Failed
      lon == IF Len(parts) = 2 THEN ParseFloat(parts[2]) ELSE Failed
  IN IF Len(parts) = 2 /\ lat.ok /\ lon.ok
     THEN Parsed(<<lat.v, lon.v>>)
     ELSE Failed

\* text.strip().replace(',', ' ').split(), two parts, float() of each, then
\* the range test: ok = FALSE stands for every branch that answers with an error.
ParseCoordinates(s) ==
  LET parts == SplitWs(Replace(Strip(s), ",", " "))
      lat == IF Len(parts) = 2 THEN ParseFloat(parts[1]) ELSE Failed
      lon == IF Len(parts) = 2 THEN ParseFloat(parts[2]) ELSE Failed
  IN IF /\ Len(parts) = 2 /\ lat.ok /\ lon.ok
        /\ 0 - 90 * Scale <= lat.v /\ lat.v <= 90 * Scale
        /\ 0 - 180 * Scale <= lon.v /\ lon.v <= 180 * Scale
     THEN Parsed(<<lat.v, lon.v>>)
     ELSE Failed

\* The cancel button reaches this handler, which returns at once: the handler
\* registered after it, process_cancel_location, is never run.
process_text_coordinates(u) ==
  \E t \in {CANCEL} \cup CoordInputs :
    /\ Route(fsm[u], Text(t)) = "process_text_coordinates"
    /\ LET h == "process_text_coordinates"
           c == ParseCoordinates(Chars(t))
       IN IF t = CANCEL THEN Ignore(u, h, t) /\ UNCHANGED <<db, cache>>
          ELSE IF ~c.ok THEN Reject(u, h, t) /\ UNCHANGED <<db, cache>>
          ELSE IF HasDraft("place", u)
               THEN save_place(u, h, t,
                               Put(Put(Draft("place", u), "latitude", Num(c.v[1])),
                                   "longitude", Num(c.v[2])))
          ELSE /\ UNCHANGED <<fsm, user_data, db, cache>>
               /\ Seen(u, h, t, "error")
    /\ UNCHANGED <<clock, starts, aside>>

\* ---------------------------------------------------------- expense wizard
ExpenseRequired == {"category", "name", "amount", "expense_date"}
ExpenseColumns == ExpenseRequired \cup {"note"}

add_expense_start(u) ==
  /\ Route(fsm[u], Text(StartButton("expense"))) = "add_expense_start"
  /\ Start("expense", u, "add_expense_start", "AddExpenseStates:waiting_for_category")

process_expense_category(u) ==
  \E t \in {CANCEL, SKIP, "food"} :
    /\ Route(fsm[u], Text(t)) = "process_expense_category"
    /\ IF t = CANCEL THEN CancelDel("expense", u, "process_expense_category", t)
       ELSE Store("expense", u, "process_expense_category", t, "category", Str(t),
                  "AddExpenseStates:waiting_for_name")
    /\ UNCHANGED <<db, cache, clock, starts, aside>>

process_expense_name(u) ==
  \E t \in {CANCEL, SKIP, "lunch"} :
    /\ Route(fsm[u], Text(t)) = "process_expense_name"
    /\ IF t = CANCEL THEN CancelDel("expense", u, "process_expense_name", t)
       ELSE Store("expense", u, "process_expense_name", t, "name", Str(Capitalize(t)),
                  "AddExpenseStates:waiting_for_amount")
    /\ UNCHANGED <<db, cache, clock, starts, aside>>

process_expense_amount(u) ==
  \E t \in {CANCEL, "450", "12,5", "0", "-3", "abc"} :
    /\ Route(fsm[u], Text(t)) = "process_expense_amount"
    /\ LET amount == ParseAmount(Chars(t))
       IN IF t = CANCEL THEN CancelDel("expense", u, "process_expense_amount", t)
          ELSE IF ~amount.ok \/ amount.v < 0
               THEN Reject(u, "process_expense_amount", t)
          ELSE Store("expense", u, "process_expense_amount", t, "amount", Num(amount.v),
                     "AddExpenseStates:waiting_for_date_choice")
    /\ UNCHANGED <<db, cache, clock, starts, aside>>

process_expense_date_choice(u) ==
  \E t \in {CANCEL, "btn:today", "btn:enter_date", "abc"} :
    /\ Route(fsm[u], Text(t)) = "process_expense_date_choice"
    /\ IF t = CANCEL THEN CancelDel("expense", u, "process_expense_date_choice", t)
       ELSE IF t = "btn:today"
            THEN Store("expense", u, "process_expense_date_choice", t, "expense_date",
                       Date(Today), "AddExpenseStates:waiting_for_note_choice")
       ELSE IF t = "btn:enter_date"
            THEN Advance(u, "process_expense_date_choice", t,
                         "AddExpenseStates:waiting_for_date")
       ELSE Reject(u, "process_expense_date_choice", t)
    /\ UNCHANGED <<db, cache, clock, starts, aside>>

process_expense_date(u) ==
  \E t \in {CANCEL} \cup DateInputs :
    /\ Route(fsm[u], Text(t)) = "process_expense_date"
    /\ LET expense_date == ParseDate(Chars(t))
       IN IF t = CANCEL THEN CancelDel("expense", u, "process_expense_date", t)
          ELSE IF ~expense_date.ok THEN Reject(u, "process_expense_date", t)
          ELSE Store("expense", u, "process_expense_date", t, "expense_date",
                     Date(expense_date.v), "AddExpenseStates:waiting_for_note_choice")
    /\ UNCHANGED <<db, cache, clock, starts, aside>>

\* save_expense as it would be without its last statement, the del of the draft
save_expense_without_del(u, h, t, d) ==
  IF ~(ExpenseRequired \subseteq DOMAIN d)
  THEN /\ user_data' = WithDraft("expense", u, d)
       /\ UNCHANGED <<fsm, db>>
       /\ Seen(u, h, t, "error")
  ELSE \E stored \in BOOLEAN :
         /\ db' = IF stored
                  THEN Append(db, Row("expenses", u, Columns(d, ExpenseColumns)))
                  ELSE db
         /\ Clear(u)
         /\ user_data' = WithDraft("expense", u, d)
         /\ Seen(u, h, t, IF stored THEN "committed" ELSE "commit_failed")

\* save_expense, with the draft d the calling handler has just written
save_expense(u, h, t, d) ==
  Commit("expense", u, h, t, d, "expenses", ExpenseRequired,
         Columns(d, ExpenseColumns))

process_expense_note_choice(u) ==
  \E t \in {CANCEL, SKIP, "btn:add_note", "abc"} :
    /\ Route(fsm[u], Text(t)) = "process_expense_note_choice"
    /\ IF t = CANCEL
       THEN CancelDel("expense", u, "process_expense_note_choice", t) /\ UNCHANGED db
       ELSE IF t = SKIP
            THEN IF HasDraft("expense", u)
                 THEN save_expense(u, "process_expense_note_choice", t,
                                   Put(Draft("expense", u), "note", None))
                 ELSE /\ UNCHANGED <<fsm, user_data, db>>
                      /\ Seen(u, "process_expense_note_choice", t, "error")
       ELSE IF t = "btn:add_note"
            THEN Advance(u, "process_expense_note_choice", t,
                         "AddExpenseStates:waiting_for_note") /\ UNCHANGED db
       ELSE Reject(u, "process_expense_note_choice", t) /\ UNCHANGED db
    /\ UNCHANGED <<cache, clock, starts, aside>>

process_expense_note(u) ==
  \E t \in {CANCEL, "with anna"} :
    /\ Route(fsm[u], Text(t)) = "process_expense_note"
    /\ IF t = CANCEL
       THEN CancelDel("expense", u, "process_expense_note", t) /\ UNCHANGED db
       ELSE IF HasDraft("expense", u)
            THEN save_expense(u, "process_expense_note", t,
                              Put(Draft("expense", u), "note", Str(t)))
       ELSE /\ UNCHANGED <<fsm, user_data, db>>
            /\ Seen(u, "process_expense_note", t, "error")
    /\ UNCHANGED <<cache, clock, starts, aside>>


\* ------------------------------------------------------------- note wizard
add_note_start(u) ==
  /\ Route(fsm[u], Text(StartButton("note"))) = "add_note_start"
  /\ Start("note", u, "add_note_start", "QuickNoteStates:waiting_for_category")

\* NOTE_CATEGORIES.get(text) is None for every text that is not a category
\* button, the cancel button included; the branch on EMOJI_BACK deletes the
\* draft, when the back button reaches this handler.
process_note_category(u) ==
  \E t \in {BACK, CANCEL, "btn:idea", "abc"} :
    /\ Route(fsm[u], Text(t)) = "process_note_category"
    /\ IF t = BACK THEN CancelDel("note", u, "process_note_category", t)
       ELSE IF t # "btn:idea" THEN Reject(u, "process_note_category", t)
       ELSE Store("note", u, "process_note_category", t, "category", Str("idea"),
                  "QuickNoteStates:waiting_for_text")
    /\ UNCHANGED <<db, cache, clock, starts, aside>>

\* process_note_text as it would be if its cancel branch stored the note
process_note_text_storing(u) ==
  \E t \in {CANCEL, "buy milk"} :
    /\ Route(fsm[u], Text(t)) = "process_note_text"
    /\ IF t = CANCEL
       THEN /\ CancelDel("note", u, "process_note_text", t)
            /\ db' = Append(db, Row("notes", u, [category |-> None, text |-> Str(t)]))
       ELSE IF HasDraft("note", u)
            THEN Commit("note", u, "process_note_text", t, Draft("note", u),
                        "notes", {"category"},
                        [category |-> Field(Draft("note", u), "category"), text |-> Str(t)])
       ELSE /\ UNCHANGED <<fsm, user_data, db>>
            /\ Seen(u, "process_note_text", t, "error")
    /\ UNCHANGED <<cache, clock, starts, aside>>

process_note_text(u) ==
  \E t \in {CANCEL, "buy milk"} :
    /\ Route(fsm[u], Text(t)) = "process_note_text"
    /\ IF t = CANCEL
       THEN CancelDel("note", u, "process_note_text", t) /\ UNCHANGED db
       ELSE IF HasDraft("note", u)
            THEN Commit("note", u, "process_note_text", t, Draft("note", u),
                        "notes", {"category"},
                        [category |-> Field(Draft("note", u), "category"), text |-> Str(t)])
       ELSE /\ UNCHANGED <<fsm, user_data, db>>
            /\ Seen(u, "process_note_text", t, "error")
    /\ UNCHANGED <<cache, clock, starts, aside>>

\* ------------------------------------------------ recurring expense wizard
add_recurring_expense_start(u) ==
  /\ Route(fsm[u], Text(StartButton("recurring"))) = "add_recurring_expense_start"
  /\ Start("recurring", u, "add_recurring_expense_start",
           "AddRecurringExpenseStates:waiting_for_name")

process_recurring_expense_name(u) ==
  \E t \in {CANCEL, "spotify"} :
    /\ Route(fsm[u], Text(t)) = "process_recurring_expense_name"
    /\ IF t = CANCEL THEN CancelDel("recurring", u, "process_recurring_expense_name", t)
       ELSE Store("recurring", u, "process_recurring_expense_name", t, "name",
                  Str(Capitalize(t)), "AddRecurringExpenseStates:waiting_for_amount")
    /\ UNCHANGED <<db, cache, clock, starts, aside>>

process_recurring_expense_amount(u) ==
  \E t \in {CANCEL, "450", "-3", "abc"} :
    /\ Route(fsm[u], Text(t)) = "process_recurring_expense_amount"
    /\ LET amount == ParseAmount(Chars(t))
       IN IF t = CANCEL
          THEN CancelDel("recurring", u, "process_recurring_expense_amount", t)
          ELSE IF ~amount.ok \/ amount.v < 0
               THEN Reject(u, "process_recurring_expense_amount", t)
          ELSE Store("recurring", u, "process_recurring_expense_amount", t, "amount",
                     Num(amount.v), "AddRecurringExpenseStates:waiting_for_date")
    /\ UNCHANGED <<db, cache, clock, starts, aside>>

process_recurring_expense_date(u) ==
  \E t \in {CANCEL} \cup DateInputs :
    /\ Route(fsm[u], Text(t)) = "process_recurring_expense_date"
    /\ LET payment_date == ParseDate(Chars(t))
       IN IF t = CANCEL
          THEN CancelDel("recurring", u, "process_recurring_expense_date", t)
               /\ UNCHANGED db
          ELSE IF ~payment_date.ok
               THEN Reject(u, "process_recurring_expense_date", t) /\ UNCHANGED db
          ELSE IF HasDraft("recurring", u)
               THEN Commit("recurring", u, "process_recurring_expense_date", t,
                           Put(Draft("recurring", u), "payment_date", Date(payment_date.v)),
                           "recurring_expenses", {"name", "amount"},
                           Columns(Put(Draft("recurring", u), "payment_date",
                                       Date(payment_date.v)),
                                   {"name", "amount", "payment_date"}))
          ELSE /\ UNCHANGED <<fsm, user_data, db>>
               /\ Seen(u, "process_recurring_expense_date", t, "error")
    /\ UNCHANGED <<cache, clock, starts, aside>>

\* ------------------------------------------------------- Avito sale wizard
add_avito_start(u) ==
  /\ Route(fsm[u], Text(StartButton("avito"))) = "add_avito_start"
  /\ Start("avito", u, "add_avito_start", "AddAvitoStates:waiting_for_item_name")

process_avito_item_name(u) ==
  \E t \in {CANCEL, "bike"} :
    /\ Route(fsm[u], Text(t)) = "process_avito_item_name"
    /\ IF t = CANCEL THEN CancelDel("avito", u, "process_avito_item_name", t)
       ELSE Store("avito", u, "process_avito_item_name", t, "item_name",
                  Str(Capitalize(t)), "AddAvitoStates:waiting_for_amount")
    /\ UNCHANGED <<db, cache, clock, starts, aside>>

process_avito_amount(u) ==
  \E t \in {CANCEL, "450", "-3", "abc"} :
    /\ Route(fsm[u], Text(t)) = "process_avito_amount"
    /\ LET amount == ParseAmount(Chars(t))
       IN IF t = CANCEL THEN CancelDel("avito", u, "process_avito_amount", t)
          ELSE IF ~amount.ok \/ amount.v < 0
               THEN Reject(u, "process_avito_amount", t)
          ELSE Store("avito", u, "process_avito_amount", t, "amount", Num(amount.v),
                     "AddAvitoStates:waiting_for_date")
    /\ UNCHANGED <<db, cache, clock, starts, aside>>

process_avito_date(u) ==
  \E t \in {CANCEL} \cup DateInputs :
    /\ Route(fsm[u], Text(t)) = "process_avito_date"
    /\ LET sale_date == ParseDate(Chars(t))
       IN IF t = CANCEL
          THEN CancelDel("avito", u, "process_avito_date", t) /\ UNCHANGED db
          ELSE IF ~sale_date.ok
               THEN Reject(u, "process_avito_date", t) /\ UNCHANGED db
          ELSE IF HasDraft("avito", u)
               THEN Commit("avito", u, "process_avito_date", t,
                           Put(Draft("avito", u), "sale_date", Date(sale_date.v)),
                           "avito_sales", {"item_name", "amount"},
                           Columns(Put(Draft("avito", u), "sale_date", Date(sale_date.v)),
                                   {"item_name", "amount", "sale_date"}))
          ELSE /\ UNCHANGED <<fsm, user_data, db>>
               /\ Seen(u, "process_avito_date", t, "error")
    /\ UNCHANGED <<cache, clock, starts, aside>>

\* ------------------------------------------------------------ movie wizard
add_movie_start(u) ==
  /\ Route(fsm[u], Text(StartButton("movie"))) = "add_movie_start"
  /\ Start("movie", u, "add_movie_start", "AddMovieStates:waiting_for_title")

process_movie_title(u) ==
  \E t \in {CANCEL, SKIP, "dune"} :
    /\ Route(fsm[u], Text(t)) = "process_movie_title"
    /\ IF t = CANCEL THEN CancelDel("movie", u, "process_movie_title", t)
       ELSE Store("movie", u, "process_movie_title", t, "title", Str(Capitalize(t)),
                  "AddMovieStates:waiting_for_genre")
    /\ UNCHANGED <<db, cache, clock, starts, aside>>

\* GENRE_MAP.get(text, text): the text itself for a text that is no genre button
process_movie_genre(u) ==
  \E t \in {CANCEL, BACK, "drama"} :
    /\ Route(fsm[u], Text(t)) = "process_movie_genre"
    /\ IF t = CANCEL \/ t = BACK THEN CancelDel("movie", u, "process_movie_genre", t)
       ELSE Store("movie", u, "process_movie_genre", t, "genre", Str(t),
                  "AddMovieStates:waiting_for_year")
    /\ UNCHANGED <<db, cache, clock, starts, aside>>

process_movie_year(u) ==
  \E t \in {CANCEL, "2020", "1799", "abc"} :
    /\ Route(fsm[u], Text(t)) = "process_movie_year"
    /\ LET year == ParseInt(Chars(t))
       IN IF t = CANCEL THEN CancelDel("movie", u, "process_movie_year", t)
          ELSE IF ~year.ok \/ year.v < 1800 \/ year.v > 2100
               THEN Reject(u, "process_movie_year", t)
          ELSE Store("movie", u, "process_movie_year", t, "year", Num(year.v),
                     "AddMovieStates:waiting_for_status")
    /\ UNCHANGED <<db, cache, clock, starts, aside>>

process_movie_status(u) ==
  \E t \in {CANCEL, "btn:not_watched", "btn:watched", "abc"} :
    /\ Route(fsm[u], Text(t)) = "process_movie_status"
    /\ IF t = CANCEL THEN CancelDel("movie", u, "process_movie_status", t)
       ELSE IF t \notin {"btn:not_watched", "btn:watched"}
            THEN Reject(u, "process_movie_status", t)
       ELSE Store("movie", u, "process_movie_status", t, "status", Str(t),
                  "AddMovieStates:waiting_for_rating")
    /\ UNCHANGED <<db, cache, clock, starts, aside>>

\* rating_map: one to five stars
StarRating(t) ==
  CASE t = "btn:stars1" -> 1 [] t = "btn:stars2" -> 2 [] t = "btn:stars3" -> 3
    [] t = "btn:stars4" -> 4 [] t = "btn:stars5" -> 5 [] OTHER -> 0

process_movie_rating(u) ==
  \E t \in {CANCEL, SKIP, "btn:stars4", "abc"} :
    /\ Route(fsm[u], Text(t)) = "process_movie_rating"
    /\ IF t = CANCEL THEN CancelDel("movie", u, "process_movie_rating", t)
       ELSE IF t = SKIP
            THEN Store("movie", u, "process_movie_rating", t, "rating", None,
                       "AddMovieStates:waiting_for_notes")
       ELSE IF StarRating(t) = 0 THEN Reject(u, "process_movie_rating", t)
       ELSE Store("movie", u, "process_movie_rating", t, "rating", Num(StarRating(t)),
                  "AddMovieStates:waiting_for_notes")
    /\ UNCHANGED <<db, cache, clock, starts, aside>>

process_movie_notes(u) ==
  \E t \in {CANCEL, SKIP, "great"} :
    /\ Route(fsm[u], Text(t)) = "process_movie_notes"
    /\ IF t = CANCEL
       THEN CancelDel("movie", u, "process_movie_notes", t) /\ UNCHANGED db
       ELSE IF HasDraft("movie", u)
            THEN LET d == Put(Draft("movie", u), "notes", IF t = SKIP THEN None ELSE Str(t))
                 IN Commit("movie", u, "process_movie_notes", t, d, "movies",
                           {"title", "genre", "year", "status"},
                           Columns(d, {"title", "genre", "year", "status", "rating", "notes"}))
       ELSE /\ UNCHANGED <<fsm, user_data, db>>
            /\ Seen(u, "process_movie_notes", t, "error")
    /\ UNCHANGED <<cache, clock, starts, aside>>

\* ----------------------------------------------------------- series wizard
add_series_start(u) ==
  /\ Route(fsm[u], Text(StartButton("series"))) = "add_series_start"
  /\ Start("series", u, "add_series_start", "AddSeriesStates:waiting_for_title")

process_series_title(u) ==
  \E t \in {CANCEL, "dune"} :
    /\ Route(fsm[u], Text(t)) = "process_series_title"
    /\ IF t = CANCEL THEN CancelDel("series", u, "process_series_title", t)
       ELSE Store("series", u, "process_series_title", t, "title", Str(Capitalize(t)),
                  "AddSeriesStates:waiting_for_genre")
    /\ UNCHANGED <<db, cache, clock, starts, aside>>

process_series_genre(u) ==
  \E t \in {CANCEL, "drama"} :
    /\ Route(fsm[u], Text(t)) = "process_series_genre"
    /\ IF t = CANCEL THEN CancelDel("series", u, "process_series_genre", t)
       ELSE Store("series", u, "process_series_genre", t, "genre", Str(Capitalize(t)),
                  "AddSeriesStates:waiting_for_year")
    /\ UNCHANGED <<db, cache, clock, starts, aside>>

process_series_year(u) ==
  \E t \in {CANCEL, "2020", "1799", "abc"} :
    /\ Route(fsm[u], Text(t)) = "process_series_year"
    /\ LET year == ParseInt(Chars(t))
       IN IF t = CANCEL THEN CancelDel("series", u, "process_series_year", t)
          ELSE IF ~year.ok \/ year.v < 1800 \/ year.v > 2100
               THEN Reject(u, "process_series_year", t)
          ELSE Store("series", u, "process_series_year", t, "year", Num(year.v),
                     "AddSeriesStates:waiting_for_seasons")
    /\ UNCHANGED <<db, cache, clock, starts, aside>>

process_series_seasons(u) ==
  \E t \in {CANCEL, "3", "0", "abc"} :
    /\ Route(fsm[u], Text(t)) = "process_series_seasons"
    /\ LET seasons == ParseInt(Chars(t))
       IN IF t = CANCEL THEN CancelDel("series", u, "process_series_seasons", t)
          ELSE IF ~seasons.ok \/ seasons.v < 1
               THEN Reject(u, "process_series_seasons", t)
          ELSE Store("series", u, "process_series_seasons", t, "seasons", Num(seasons.v),
                     "AddSeriesStates:waiting_for_episodes")
    /\ UNCHANGED <<db, cache, clock, starts, aside>>

process_series_episodes(u) ==
  \E t \in {CANCEL, "8", "-3", "12,5"} :
    /\ Route(fsm[u], Text(t)) = "process_series_episodes"
    /\ LET episodes == ParseInt(Chars(t))
       IN IF t = CANCEL THEN CancelDel("series", u, "process_series_episodes", t)
          ELSE IF ~episodes.ok \/ episodes.v < 1
               THEN Reject(u, "process_series_episodes", t)
          ELSE Store("series", u, "process_series_episodes", t, "episodes",
                     Num(episodes.v), "AddSeriesStates:waiting_for_status")
    /\ UNCHANGED <<db, cache, clock, starts, aside>>

process_series_status(u) ==
  \E t \in {CANCEL, "btn:watching", "abc"} :
    /\ Route(fsm[u], Text(t)) = "process_series_status"
    /\ IF t = CANCEL THEN CancelDel("series", u, "process_series_status", t)
       ELSE IF t \notin {"btn:not_watched", "btn:watching", "btn:watched"}
            THEN Reject(u, "process_series_status", t)
       ELSE Store("series", u, "process_series_status", t, "status", Str(t),
                  "AddSeriesStates:waiting_for_rating")
    /\ UNCHANGED <<db, cache, clock, starts, aside>>

\* text.count(star): the number of star characters in the text
process_series_rating(u) ==
  \E t \in {CANCEL, SKIP, "btn:stars4", "abc"} :
    /\ Route(fsm[u], Text(t)) = "process_series_rating"
    /\ LET rating == StarRating(t)
       IN IF t = CANCEL THEN CancelDel("series", u, "process_series_rating", t)
          ELSE IF t = SKIP
               THEN Store("series", u, "process_series_rating", t, "rating", None,
                          "AddSeriesStates:waiting_for_notes")
          ELSE IF rating < 1 \/ rating > 5 THEN Reject(u, "process_series_rating", t)
          ELSE Store("series", u, "process_series_rating", t, "rating", Num(rating),
                     "AddSeriesStates:waiting_for_notes")
    /\ UNCHANGED <<db, cache, clock, starts, aside>>

process_series_notes(u) ==
  \E t \in {CANCEL, SKIP, "great"} :
    /\ Route(fsm[u], Text(t)) = "process_series_notes"
    /\ IF t = CANCEL
       THEN CancelDel("series", u, "process_series_notes", t) /\ UNCHANGED db
       ELSE IF HasDraft("series", u)
            THEN LET d == Put(Draft("series", u), "notes", IF t = SKIP THEN None ELSE Str(t))
                 IN Commit("series", u, "process_series_notes", t, d, "series",
                           {"title", "genre", "year", "status"},
                           Columns(d, {"title", "genre", "year", "status", "rating", "notes"})
                           @@ [seasons |-> FieldOr(d, "seasons", Num(0)),
                               episodes |-> FieldOr(d, "episodes", Num(0))])
       ELSE /\ UNCHANGED <<fsm, user_data, db>>
            /\ Seen(u, "process_series_notes", t, "error")
    /\ UNCHANGED <<cache, clock, starts, aside>>

\* ------------------------------------------------------------- tips wizard
\* wage = hours_worked * 180
HourlyRate == 180

add_tips_start(u) ==
  /\ Route(fsm[u], Text(StartButton("tips"))) = "add_tips_start"
  /\ Start("tips", u, "add_tips_start", "AddTipsStates:waiting_for_hours")

\* The cancel branch of the hours step clears the state and keeps the draft.
process_tips_hours(u) ==
  \E t \in {CANCEL, "8", "0", "-3", "abc"} :
    /\ Route(fsm[u], Text(t)) = "process_tips_hours"
    /\ LET hours == ParseAmount(Chars(t))
       IN IF t = CANCEL THEN CancelKeep(u, "process_tips_hours", t)
          ELSE IF ~hours.ok \/ hours.v <= 0 THEN Reject(u, "process_tips_hours", t)
          ELSE Store("tips", u, "process_tips_hours", t, "hours_worked", Num(hours.v),
                     "AddTipsStates:waiting_for_card")
    /\ UNCHANGED <<db, cache, clock, starts, aside>>

\* The card, netmonet and cash steps: skip stores 0, a number is stored
\* unless it is negative.
TipsAmountStep(u, h, f, next, texts) ==
  \E t \in texts :
    /\ Route(fsm[u], Text(t)) = h
    /\ LET amount == ParseAmount(Chars(t))
       IN IF t = CANCEL THEN CancelDel("tips", u, h, t)
          ELSE IF t = SKIP THEN Store("tips", u, h, t, f, Num(0), next)
          ELSE IF ~amount.ok \/ amount.v < 0 THEN Reject(u, h, t)
          ELSE Store("tips", u, h, t, f, Num(amount.v), next)
    /\ UNCHANGED <<db, cache, clock, starts, aside>>

process_tips_card(u) ==
  /\ StateTable[fsm[u]].handler = "process_tips_card"
  /\ TipsAmountStep(u, "process_tips_card", "card", "AddTipsStates:waiting_for_netmonet",
     {CANCEL, SKIP, "450", "-3", "abc"})

process_tips_netmonet(u) ==
  /\ StateTable[fsm[u]].handler = "process_tips_netmonet"
  /\ TipsAmountStep(u, "process_tips_netmonet", "netmonet", "AddTipsStates:waiting_for_cash",
     {CANCEL, SKIP, "12,5", "-3"})

process_tips_cash(u) ==
  /\ StateTable[fsm[u]].handler = "process_tips_cash"
  /\ TipsAmountStep(u, "process_tips_cash", "cash", "AddTipsStates:waiting_for_date",
     {CANCEL, SKIP, "0", "-3", "abc"})

\* The date step computes wage, tips_total and total into the draft, then
\* commits; card, netmonet and cash are read with subscripts.
process_tips_date(u) ==
  \E t \in {CANCEL} \cup DateInputs :
    /\ Route(fsm[u], Text(t)) = "process_tips_date"
    /\ LET tips_date == ParseDate(Chars(t))
           d0 == IF HasDraft("tips", u) THEN Put(Draft("tips", u), "date", Date(tips_date.v))
                 ELSE EmptyDraft
           hours_worked == FieldOr(d0, "hours_worked", Num(0))
           wage == hours_worked[2] * HourlyRate
           tips_total == Field(d0, "card")[2] + Field(d0, "netmonet")[2] + Field(d0, "cash")[2]
           total == wage + tips_total
           d == Put(Put(Put(d0, "wage", Num(wage)), "tips_total", Num(tips_total)),
                    "total", Num(total))
       IN IF t = CANCEL
          THEN CancelDel("tips", u, "process_tips_date", t) /\ UNCHANGED db
          ELSE IF ~tips_date.ok
               THEN Reject(u, "process_tips_date", t) /\ UNCHANGED db
          ELSE IF ~HasDraft("tips", u)
               THEN /\ UNCHANGED <<fsm, user_data, db>>
                    /\ Seen(u, "process_tips_date", t, "error")
          ELSE IF ~({"card", "netmonet", "cash"} \subseteq DOMAIN d0)
               THEN Commit("tips", u, "process_tips_date", t, d0, "tips",
                           {"card", "netmonet", "cash"}, <<>>)
          ELSE Commit("tips", u, "process_tips_date", t, d, "tips",
                      {"card", "netmonet", "cash"},
                      [tips_date |-> d["date"], card_amount |-> d["card"],
                       netmonet_amount |-> d["netmonet"], cash_amount |-> d["cash"],
                       total_amount |-> d["total"], hours_worked |-> hours_worked])
    /\ UNCHANGED <<cache, clock, starts, aside>>

\* --------------------------------------------------------- wishlist wizard
add_wishlist_start(u) ==
  /\ Route(fsm[u], Text(StartButton("wishlist"))) = "add_wishlist_start"
  /\ Start("wishlist", u, "add_wishlist_start", "AddWishlistStates:waiting_for_size_category")

\* The size, type and priority steps: the text must be one of the buttons.
WishlistChoiceStep(u, h, f, next, buttons, texts) ==
  \E t \in texts :
    /\ Route(fsm[u], Text(t)) = h
    /\ IF t = CANCEL THEN CancelDel("wishlist", u, h, t)
       ELSE IF t \notin buttons THEN Reject(u, h, t)
       ELSE Store("wishlist", u, h, t, f, Str(t), next)
    /\ UNCHANGED <<db, cache, clock, starts, aside>>

process_wishlist_size(u) ==
  /\ StateTable[fsm[u]].handler = "process_wishlist_size"
  /\ WishlistChoiceStep(u, "process_wishlist_size", "size_category",
     "AddWishlistStates:waiting_for_type_category",
     {"btn:size_small", "btn:size_big"}, {CANCEL, "btn:size_small", "abc"})

process_wishlist_type(u) ==
  /\ StateTable[fsm[u]].handler = "process_wishlist_type"
  /\ WishlistChoiceStep(u, "process_wishlist_type", "type_category",
     "AddWishlistStates:waiting_for_name",
     {"btn:type_thing", "btn:type_trip"}, {CANCEL, "btn:type_thing", SKIP})

process_wishlist_name(u) ==
  \E t \in {CANCEL, "bike"} :
    /\ Route(fsm[u], Text(t)) = "process_wishlist_name"
    /\ IF t = CANCEL THEN CancelDel("wishlist", u, "process_wishlist_name", t)
       ELSE Store("wishlist", u, "process_wishlist_name", t, "name", Str(t),
                  "AddWishlistStates:waiting_for_price")
    /\ UNCHANGED <<db, cache, clock, starts, aside>>

\* float(text.replace(',', '.').replace(' ', '')): no test of the sign
process_wishlist_price(u) ==
  \E t \in {CANCEL, SKIP, "450", "-3", "abc"} :
    /\ Route(fsm[u], Text(t)) = "process_wishlist_price"
    /\ LET price == ParseFloat(Remove(Replace(Chars(t), ",", "."), " "))
       IN IF t = CANCEL THEN CancelDel("wishlist", u, "process_wishlist_price", t)
          ELSE IF t = SKIP
               THEN Store("wishlist", u, "process_wishlist_price", t, "price", None,
                          "AddWishlistStates:waiting_for_priority")
          ELSE IF ~price.ok THEN Reject(u, "process_wishlist_price", t)
          ELSE Store("wishlist", u, "process_wishlist_price", t, "price", Num(price.v),
                     "AddWishlistStates:waiting_for_priority")
    /\ UNCHANGED <<db, cache, clock, starts, aside>>

process_wishlist_priority(u) ==
  /\ StateTable[fsm[u]].handler = "process_wishlist_priority"
  /\ WishlistChoiceStep(u, "process_wishlist_priority", "priority",
     "AddWishlistStates:waiting_for_photo",
     {"btn:prio_high", "btn:prio_low"}, {CANCEL, "btn:prio_high", "abc"})

\* A photo message carries no text; its largest size's file_id is stored.
process_wishlist_photo(u) ==
  \E m \in {Text(CANCEL), Text(SKIP), Text("abc"), Photo} :
    /\ Route(fsm[u], m) = "process_wishlist_photo"
    /\ IF m.text = CANCEL THEN CancelDel("wishlist", u, "process_wishlist_photo", m.text)
       ELSE IF m.text = SKIP
            THEN Store("wishlist", u, "process_wishlist_photo", m.text, "photo_url", None,
                       "AddWishlistStates:waiting_for_link")
       ELSE IF m.kind = "photo"
            THEN Store("wishlist", u, "process_wishlist_photo", m.text, "photo_url",
                       Str("file_id"), "AddWishlistStates:waiting_for_link")
       ELSE Reject(u, "process_wishlist_photo", m.text)
    /\ UNCHANGED <<db, cache, clock, starts, aside>>

process_wishlist_link(u) ==
  \E t \in {CANCEL, SKIP, "shop.example"} :
    /\ Route(fsm[u], Text(t)) = "process_wishlist_link"
    /\ IF t = CANCEL
       THEN CancelDel("wishlist", u, "process_wishlist_link", t) /\ UNCHANGED db
       ELSE IF HasDraft("wishlist", u)
            THEN LET d == Put(Draft("wishlist", u), "link", IF t = SKIP THEN None ELSE Str(t))
                 IN Commit("wishlist", u, "process_wishlist_link", t, d, "wishlist",
                           {"name", "size_category", "type_category"},
                           Columns(d, {"name", "size_category", "type_category", "price",
                                       "priority", "photo_url", "link"}))
       ELSE /\ UNCHANGED <<fsm, user_data, db>>
            /\ Seen(u, "process_wishlist_link", t, "error")
    /\ UNCHANGED <<cache, clock, starts, aside>>

\* One update of a user is handled: the router picks the handler, which runs
\* to its end.
Next ==
  \E u \in WizardUsers :
    \/ back_to_menu(u)
    \/ show_stats(u)
    \/ add_note_start(u)
    \/ process_note_category(u)
    \/ process_note_text(u)
    \/ add_place_start(u)
    \/ process_place_name(u)
    \/ process_place_selection(u)
    \/ process_fill_method(u)
    \/ process_place_type(u)
    \/ process_cuisine(u)
    \/ process_price_category(u)
    \/ process_status(u)
    \/ process_review(u)
    \/ process_place_address(u)
    \/ process_place_description(u)
    \/ process_place_social(u)
    \/ process_location(u)
    \/ process_skip_location(u)
    \/ process_text_coordinates(u)
    \/ add_expense_start(u)
    \/ process_expense_category(u)
    \/ process_expense_name(u)
    \/ process_expense_amount(u)
    \/ process_expense_date_choice(u)
    \/ process_expense_date(u)
    \/ process_expense_note_choice(u)
    \/ process_expense_note(u)
    \/ add_recurring_expense_start(u)
    \/ process_recurring_expense_name(u)
    \/ process_recurring_expense_amount(u)
    \/ process_recurring_expense_date(u)
    \/ add_avito_start(u)
    \/ process_avito_item_name(u)
    \/ process_avito_amount(u)
    \/ process_avito_date(u)
    \/ add_movie_start(u)
    \/ process_movie_title(u)
    \/ process_movie_genre(u)
    \/ process_movie_year(u)
    \/ process_movie_status(u)
    \/ process_movie_rating(u)
    \/ process_movie_notes(u)
    \/ add_series_start(u)
    \/ process_series_title(u)
    \/ process_series_genre(u)
    \/ process_series_year(u)
    \/ process_series_seasons(u)
    \/ process_series_episodes(u)
    \/ process_series_status(u)
    \/ process_series_rating(u)
    \/ process_series_notes(u)
    \/ add_tips_start(u)
    \/ process_tips_hours(u)
    \/ process_tips_card(u)
    \/ process_tips_netmonet(u)
    \/ process_tips_cash(u)
    \/ process_tips_date(u)
    \/ add_wishlist_start(u)
    \/ process_wishlist_size(u)
    \/ process_wishlist_type(u)
    \/ process_wishlist_name(u)
    \/ process_wishlist_price(u)
    \/ process_wishlist_priority(u)
    \/ process_wishlist_photo(u)
    \/ process_wishlist_link(u)

Spec == Init /\ [][Next]_vars

\* ------------------------------------------- a wizard started over a draft
\* The draft an earlier run of the place wizard has left behind: a place
\* picked from the search and filled automatically, typed "museum", planned,
\* described, and then abandoned at the social-link step. The cancel branches
\* of the place wizard clear the state and keep the draft.
StaleDraft ==
  [search_results |-> <<"list", <<SearchHit(7)>>>>,
   search_query |-> Str("gorky"),
   selected_yandex_place |-> <<"place", SearchHit(7)>>,
   name |-> Str("Gorky"),
   address |-> Str("Krymsky Val 9"),
   latitude |-> Num(557290),
   longitude |-> Num(376010),
   cuisine |-> Str("georgian"),
   working_hours |-> Str("10-22"),
   place_type |-> Str("museum"),
   status |-> Str("planned"),
   description |-> Str("open air")]

\* The earlier run was cancelled at the social-link step (no state), or is
\* still waiting there.
InitRestart ==
  /\ \E st \in {NoState, "AddPlaceStates:waiting_for_social"} :
       fsm = [u \in Users |-> IF u \in WizardUsers THEN st ELSE NoState]
  /\ user_data = [k \in Kinds |->
                    IF k = "place" THEN [u \in WizardUsers |-> StaleDraft] ELSE <<>>]
  /\ db = <<>>
  /\ cache = <<>>
  /\ clock = 0
  /\ starts = 0
  /\ last = [user |-> 0, handler |-> "none", text |-> NoText, state |-> NoState,
             result |-> "none", run |-> 0, base |-> <<>>, export |-> "none"]
  /\ tasks = <<>>
  /\ acc = [task |-> 0, user |-> 0, kind |-> "none"]
  /\ reminders = <<>>
  /\ now = [y |-> 2024, mo |-> 3, d |-> 15, h |-> 12, mi |-> 0, s |-> 0]
  /\ due = [at |-> now, rows |-> <<>>, seen |-> <<>>]
  /\ outbox = <<>>
  /\ ticks = 0
  /\ report = NoReport
  /\ ret = NoCall
  /\ state_data = [u \in Users |-> <<>>]
  /\ edits = 0

\* The updates of the place wizard, and of the note wizard as another wizard
\* the user can turn to in between.
NextRestart ==
  \E u \in WizardUsers :
    \/ back_to_menu(u)
    \/ add_note_start(u)
    \/ process_note_category(u)
    \/ process_note_text(u)
    \/ add_place_start(u)
    \/ process_place_name(u)
    \/ process_place_selection(u)
    \/ process_fill_method(u)
    \/ process_place_type(u)
    \/ process_cuisine(u)
    \/ process_price_category(u)
    \/ process_status(u)
    \/ process_review(u)
    \/ process_place_address(u)
    \/ process_place_description(u)
    \/ process_place_social(u)
    \/ process_location(u)
    \/ process_skip_location(u)
    \/ process_text_coordinates(u)

SpecRestart == InitRestart /\ [][NextRestart]_vars

\* ------------------------------------------------- two users side by side
\* User 4 has started the expense wizard, or has not; user 42 is idle.
InitPair ==
  /\ \E st \in {NoState, "AddExpenseStates:waiting_for_category"} :
       /\ fsm = [u \in Users |-> IF u = 4 THEN st ELSE NoState]
       /\ user_data = [k \in Kinds |->
                         IF k = "expense" /\ st # NoState THEN (4 :> EmptyDraft) ELSE <<>>]
  /\ db = <<>>
  /\ cache = <<>>
  /\ clock = 0
  /\ starts = 0
  /\ last = [user |-> 0, handler |-> "none", text |-> NoText, state |-> NoState,
             result |-> "none", run |-> 0, base |-> <<>>, export |-> "none"]
  /\ tasks = <<>>
  /\ acc = [task |-> 0, user |-> 0, kind |-> "none"]
  /\ reminders = <<>>
  /\ now = [y |-> 2024, mo |-> 3, d |-> 15, h |-> 12, mi |-> 0, s |-> 0]
  /\ due = [at |-> now, rows |-> <<>>, seen |-> <<>>]
  /\ outbox = <<>>
  /\ ticks = 0
  /\ report = NoReport
  /\ ret = NoCall
  /\ state_data = [u \in Users |-> <<>>]
  /\ edits = 0

\* One update of either user is handled, in the note wizard or in the first
\* steps of the expense wizard.
NextPair ==
  \E u \in Users :
    \/ back_to_menu(u)
    \/ add_note_start(u)
    \/ process_note_category(u)
    \/ process_note_text(u)
    \/ add_expense_start(u)
    \/ process_expense_category(u)
    \/ process_expense_name(u)
    \/ process_expense_amount(u)

SpecPair == InitPair /\ [][NextPair]_vars

\* ======================================================= concurrent handlers
\* Dispatcher.start_polling handles every update in a task of its own, so a
\* handler suspended at an await is interleaved with the handlers of later
\* updates. One action below is one stretch of a handler between two
\* suspensions; a task records the handler, the user, the wizard kind whose
\* draft it uses, where it is suspended (pc), its local variables (loc), and
\* whether it is between its first and its last access to the draft (mid).
\* A show_stats task also keeps, for the reads it reports: whether every
\* place write made before it began had been followed by its cache.clear
\* (clean), and the least and the greatest count the table held while it ran.
NoAccess == [task |-> 0, user |-> 0, kind |-> "none"]
Task(h, u, k, pc, loc, mid) ==
  [handler |-> h, user |-> u, kind |-> k, pc |-> pc, loc |-> loc, mid |-> mid,
   clean |-> TRUE, lo |-> 0, hi |-> 0, did |-> <<>>]
\* did, of a task that commits: what it has done so far, of the persistence
\* call ("persist", when db.add_* has returned), the cache invalidation
\* ("invalidate") and the removal of the draft ("clear").
\* A place write has reached the table and its cache.clear has not run yet.
WritePending(u) ==
  \E i \in DOMAIN tasks : tasks[i].user = u /\ tasks[i].pc = "clear"
\* The stretch of the table's count seen by the running show_stats tasks,
\* after the table has become rows.
Counted(ts, rows) ==
  [i \in DOMAIN ts |->
     IF ts[i].handler = "show_stats" /\ ts[i].pc # "done"
     THEN LET c == CountPlaces(rows, ts[i].user)
          IN [ts[i] EXCEPT !.lo = IF c < @ THEN c ELSE @, !.hi = IF c > @ THEN c ELSE @]
     ELSE ts[i]]

\* show_stats up to its first await: cache.get; on a hit the count is shown.
show_stats_get(u) ==
  /\ Len(tasks) < MaxTasks
  /\ Route(fsm[u], Text(STATS)) = "show_stats"
  /\ LET hit == CacheGet(cache, StatsKey(u), clock)
         c == CountPlaces(db, u)
         t == [Task("show_stats", u, "none", IF hit = None THEN "count" ELSE "done", hit, FALSE)
                 EXCEPT !.clean = ~WritePending(u), !.lo = c, !.hi = c]
     IN /\ cache' = CacheAfterGet(cache, StatsKey(u), clock)
        /\ tasks' = Append(tasks, t)
        /\ acc' = NoAccess
  /\ UNCHANGED <<fsm, user_data, db, clock, starts, last, sched, ret, editing>>

\* count_user_places runs its query while show_stats is suspended
show_stats_count(i) ==
  /\ i \in DOMAIN tasks /\ tasks[i].handler = "show_stats" /\ tasks[i].pc = "count"
  /\ tasks' = [tasks EXCEPT ![i].pc = "set",
                            ![i].loc = Num(CountPlaces(db, tasks[i].user))]
  /\ acc' = NoAccess
  /\ UNCHANGED <<fsm, user_data, db, cache, clock, starts, last, sched, ret, editing>>

\* show_stats resumes: cache.set(cache_key, count), and the count is shown
show_stats_set(i) ==
  /\ i \in DOMAIN tasks /\ tasks[i].handler = "show_stats" /\ tasks[i].pc = "set"
  /\ cache' = CacheSet(cache, StatsKey(tasks[i].user), tasks[i].loc, clock)
  /\ tasks' = [tasks EXCEPT ![i].pc = "done"]
  /\ acc' = NoAccess
  /\ UNCHANGED <<fsm, user_data, db, clock, starts, last, sched, ret, editing>>

\* delete_place up to the end of Database.delete_place: the row of place n
\* of the user is deleted
delete_place_db(u) ==
  \E n \in DOMAIN db :
  /\ Len(tasks) < MaxTasks
  /\ db[n].table = "places" /\ db[n].live
  /\ LET rows == IF db[n].user_id = u THEN [db EXCEPT ![n].live = FALSE] ELSE db
     IN /\ db' = rows
        /\ tasks' = Append(Counted(tasks, rows),
                           Task("delete_place", u, "none", "clear", n, FALSE))
  /\ acc' = NoAccess
  /\ UNCHANGED <<fsm, user_data, cache, clock, starts, last, sched, ret, editing>>

\* delete_place resumes: cache.clear(pattern=f"_{user_id}")
delete_place_clear(i) ==
  /\ i \in DOMAIN tasks /\ tasks[i].handler = "delete_place" /\ tasks[i].pc = "clear"
  /\ cache' = CacheClear(cache, UserPattern(tasks[i].user))
  /\ tasks' = [tasks EXCEPT ![i].pc = "done"]
  /\ acc' = NoAccess
  /\ UNCHANGED <<fsm, user_data, db, clock, starts, last, sched, ret, editing>>

\* The task that has just run touched the draft or the session of u in wizard k.
Access(i, u, k) == [task |-> i, user |-> u, kind |-> k]

\* process_expense_note_choice on the skip button, up to the await of
\* db.add_expense inside save_expense: the note is written, the four
\* required fields are read (KeyError ends the handler).
save_expense_begin(u) ==
  /\ Len(tasks) < MaxTasks
  /\ Route(fsm[u], Text(SKIP)) = "process_expense_note_choice"
  /\ LET d == IF HasDraft("expense", u) THEN Put(Draft("expense", u), "note", None)
              ELSE EmptyDraft
         ok == HasDraft("expense", u) /\ ExpenseRequired \subseteq DOMAIN d
     IN /\ user_data' = IF HasDraft("expense", u) THEN WithDraft("expense", u, d)
                        ELSE user_data
        /\ tasks' = Append(tasks, Task("save_expense", u, "expense",
                                       IF ok THEN "insert" ELSE "done", d, ok))
  /\ acc' = Access(Len(tasks) + 1, u, "expense")
  /\ UNCHANGED <<fsm, db, cache, clock, starts, last, sched, ret, editing>>

\* Database.add_expense runs while save_expense is suspended
save_expense_stored(i) ==
  /\ i \in DOMAIN tasks /\ tasks[i].handler = "save_expense" /\ tasks[i].pc = "insert"
  /\ \E stored \in BOOLEAN :
       db' = IF stored
             THEN Append(db, Row("expenses", tasks[i].user,
                                 Columns(tasks[i].loc, ExpenseColumns)))
             ELSE db
  /\ tasks' = [tasks EXCEPT ![i].pc = "finish", ![i].did = Append(@, "persist")]
  /\ acc' = NoAccess
  /\ UNCHANGED <<fsm, user_data, cache, clock, starts, last, sched, ret, editing>>

\* save_expense resumes: await state.clear(); del user_expense_data[u]
save_expense_end(i) ==
  /\ i \in DOMAIN tasks /\ tasks[i].handler = "save_expense" /\ tasks[i].pc = "finish"
  /\ Clear(tasks[i].user)
  /\ user_data' = IF HasDraft("expense", tasks[i].user)
                  THEN WithoutDraft("expense", tasks[i].user) ELSE user_data
  /\ tasks' = [tasks EXCEPT ![i].pc = "done", ![i].mid = FALSE,
                            ![i].did = IF HasDraft("expense", tasks[i].user)
                                       THEN Append(@, "clear") ELSE @]
  /\ acc' = Access(i, tasks[i].user, "expense")
  /\ UNCHANGED <<db, cache, clock, starts, last, sched, ret, editing>>

\* process_skip_location into save_place, up to the await of db.add_place:
\* data = user_place_data.get(u, {})
save_place_begin(u) ==
  /\ Len(tasks) < MaxTasks
  /\ Route(fsm[u], Text(FINISH)) = "process_skip_location"
  /\ tasks' = Append(tasks, Task("save_place", u, "place", "insert",
                                 IF HasDraft("place", u) THEN Draft("place", u)
                                 ELSE EmptyDraft, TRUE))
  /\ acc' = Access(Len(tasks) + 1, u, "place")
  /\ UNCHANGED <<fsm, user_data, db, cache, clock, starts, last, sched, ret, editing>>

\* Database.add_place runs while save_place is suspended
save_place_stored(i) ==
  /\ i \in DOMAIN tasks /\ tasks[i].handler = "save_place" /\ tasks[i].pc = "insert"
  /\ \E stored \in BOOLEAN :
       LET rows == IF stored
                   THEN Append(db, Row("places", tasks[i].user, PlaceColumns(tasks[i].loc)))
                   ELSE db
       IN /\ db' = rows
          /\ tasks' = [Counted(tasks, rows) EXCEPT ![i].pc = "clear",
                                                   ![i].did = Append(@, "persist")]
  /\ acc' = NoAccess
  /\ UNCHANGED <<fsm, user_data, cache, clock, starts, last, sched, ret, editing>>

\* save_place as it would resume without its call of cache.clear
save_place_clear_skipped(i) ==
  /\ i \in DOMAIN tasks /\ tasks[i].handler = "save_place" /\ tasks[i].pc = "clear"
  /\ tasks' = [tasks EXCEPT ![i].pc = "answer", ![i].did = Append(@, "invalidate")]
  /\ acc' = NoAccess
  /\ UNCHANGED <<fsm, user_data, db, cache, clock, starts, last, sched, ret, editing>>

\* save_place resumes: cache.clear(pattern), up to the await of message.answer
save_place_clear(i) ==
  /\ i \in DOMAIN tasks /\ tasks[i].handler = "save_place" /\ tasks[i].pc = "clear"
  /\ cache' = CacheClear(cache, UserPattern(tasks[i].user))
  /\ tasks' = [tasks EXCEPT ![i].pc = "answer", ![i].did = Append(@, "invalidate")]
  /\ acc' = NoAccess
  /\ UNCHANGED <<fsm, user_data, db, clock, starts, last, sched, ret, editing>>

\* save_place resumes: user_place_data.pop(u, None); await state.clear()
save_place_end(i) ==
  /\ i \in DOMAIN tasks /\ tasks[i].handler = "save_place" /\ tasks[i].pc = "answer"
  /\ user_data' = WithoutDraft("place", tasks[i].user)
  /\ Clear(tasks[i].user)
  /\ tasks' = [tasks EXCEPT ![i].pc = "done", ![i].mid = FALSE,
                            ![i].did = Append(@, "clear")]
  /\ acc' = Access(i, tasks[i].user, "place")
  /\ UNCHANGED <<db, cache, clock, starts, last, sched, ret, editing>>

\* process_fill_method up to its first await: the selected place is read from
\* the draft; the manual branch writes and finishes at once, the automatic
\* branch is suspended in message.answer.
process_fill_method_begin(u) ==
  \E t \in {"btn:fill_auto", "btn:fill_manual"} :
    /\ Len(tasks) < MaxTasks
    /\ Route(fsm[u], Text(t)) = "process_fill_method"
    /\ HasDraft("place", u) /\ Field(Draft("place", u), "selected_yandex_place") # None
    /\ LET sel == Draft("place", u)["selected_yandex_place"][2]
       IN IF t = "btn:fill_manual"
          THEN /\ user_data' = WithDraft("place", u, ManualFill(Draft("place", u), sel))
               /\ SetState(u, "AddPlaceStates:waiting_for_type")
               /\ tasks' = Append(tasks, Task("process_fill_method", u, "place", "done",
                                              sel, FALSE))
          ELSE /\ UNCHANGED <<fsm, user_data>>
               /\ tasks' = Append(tasks, Task("process_fill_method", u, "place", "answer",
                                              sel, TRUE))
    /\ acc' = Access(Len(tasks) + 1, u, "place")
    /\ UNCHANGED <<db, cache, clock, starts, last, sched, ret, editing>>

\* message.answer returns; the handler is suspended in get_place_details_yandex
process_fill_method_answered(i) ==
  /\ i \in DOMAIN tasks /\ tasks[i].handler = "process_fill_method" /\ tasks[i].pc = "answer"
  /\ tasks' = [tasks EXCEPT ![i].pc = "details"]
  /\ acc' = NoAccess
  /\ UNCHANGED <<fsm, user_data, db, cache, clock, starts, last, sched, ret, editing>>

\* get_place_details_yandex returns: the six fields are written (KeyError
\* when the draft is gone), then await state.set_state(waiting_for_type)
process_fill_method_end(i) ==
  /\ i \in DOMAIN tasks /\ tasks[i].handler = "process_fill_method" /\ tasks[i].pc = "details"
  /\ \E details \in DetailOutcomes :
       IF HasDraft("place", tasks[i].user)
       THEN /\ user_data' = WithDraft("place", tasks[i].user,
                   AutoFill(Draft("place", tasks[i].user), tasks[i].loc, details))
            /\ SetState(tasks[i].user, "AddPlaceStates:waiting_for_type")
       ELSE UNCHANGED <<fsm, user_data>>
  /\ tasks' = [tasks EXCEPT ![i].pc = "done", ![i].mid = FALSE]
  /\ acc' = Access(i, tasks[i].user, "place")
  /\ UNCHANGED <<db, cache, clock, starts, last, sched, ret, editing>>

\* The states the interleavings start from: a user who is idle, at the note
\* choice of the expense wizard, at the fill method or at the location step
\* of the place wizard, with the draft the steps before have written; the
\* places table is empty or holds a place the user saved earlier.
ConcStarts ==
  {[state |-> NoState, kind |-> "none", draft |-> EmptyDraft],
   [state |-> "AddExpenseStates:waiting_for_note_choice", kind |-> "expense",
    draft |-> [category |-> Str("food"), name |-> Str("Lunch"),
               amount |-> Num(450 * Scale), expense_date |-> Date(Today)]],
   [state |-> "AddPlaceStates:choosing_fill_method", kind |-> "place",
    draft |-> [search_results |-> <<"list", <<SearchHit(1), SearchHit(2)>>>>,
               search_query |-> Str("pushkin"),
               selected_yandex_place |-> <<"place", SearchHit(1)>>,
               name |-> Str("Pushkin")]],
   [state |-> "AddPlaceStates:waiting_for_location", kind |-> "place",
    draft |-> [name |-> Str("Pushkin"), yandex_data |-> None,
               place_type |-> Str("btn:park"), status |-> Str("planned")]]}

InitConc ==
  \E c \in ConcStarts,
     rows \in {<<>>, <<Row("places", 42, PlaceColumns([name |-> Str("Pushkin")]))>>} :
    /\ fsm = [u \in Users |-> IF u = 42 THEN c.state ELSE NoState]
    /\ user_data = [k \in Kinds |-> IF k = c.kind THEN (42 :> c.draft) ELSE <<>>]
    /\ db = rows
    /\ cache = <<>>
    /\ clock = 0
    /\ starts = 0
    /\ last = [user |-> 0, handler |-> "none", text |-> NoText, state |-> NoState,
               result |-> "none", run |-> 0, base |-> <<>>, export |-> "none"]
    /\ tasks = <<>>
    /\ acc = NoAccess
    /\ reminders = <<>>
    /\ now = [y |-> 2024, mo |-> 3, d |-> 15, h |-> 12, mi |-> 0, s |-> 0]
    /\ due = [at |-> now, rows |-> <<>>, seen |-> <<>>]
    /\ outbox = <<>>
    /\ ticks = 0
    /\ report = NoReport
    /\ ret = NoCall
    /\ state_data = [u \in Users |-> <<>>]
    /\ edits = 0

\* A new update is taken up by a task, or a suspended task resumes.
NextConc ==
  \/ \E u \in WizardUsers :
       \/ show_stats_get(u)
       \/ delete_place_db(u)
       \/ save_expense_begin(u)
       \/ save_place_begin(u)
       \/ process_fill_method_begin(u)
  \/ \E i \in 1..MaxTasks :
       \/ show_stats_count(i)
       \/ show_stats_set(i)
       \/ delete_place_clear(i)
       \/ save_expense_stored(i)
       \/ save_expense_end(i)
       \/ save_place_stored(i)
       \/ save_place_clear(i)
       \/ save_place_end(i)
       \/ process_fill_method_answered(i)
       \/ process_fill_method_end(i)

SpecConc == InitConc /\ [][NextConc]_vars

\* ============================================================ reminder loop
MaxReminders == 2

\* date.toordinal() and date.weekday() (Monday is 0)
RECURSIVE DaysBeforeMonth(_, _)
DaysBeforeMonth(m, y) ==
  IF m = 1 THEN 0 ELSE DaysBeforeMonth(m - 1, y) + DaysInMonth(m - 1, y)
Ordinal(y, m, d) ==
  (y - 1) * 365 + (y - 1) \div 4 - (y - 1) \div 100 + (y - 1) \div 400
    + DaysBeforeMonth(m, y) + d
Weekday(y, m, d) == (Ordinal(y, m, d) + 6) % 7

\* The wall clock n seconds later (n below one day)
Later(t, n) ==
  LET secs == t.h * 3600 + t.mi * 60 + t.s + n
      over == secs >= 86400
      rest == IF over THEN secs - 86400 ELSE secs
      lastd == t.d = DaysInMonth(t.mo, t.y)
  IN [y  |-> IF over /\ lastd /\ t.mo = 12 THEN t.y + 1 ELSE t.y,
      mo |-> IF over /\ lastd THEN (IF t.mo = 12 THEN 1 ELSE t.mo + 1) ELSE t.mo,
      d  |-> IF over THEN (IF lastd THEN 1 ELSE t.d + 1) ELSE t.d,
      h  |-> rest \div 3600, mi |-> (rest % 3600) \div 60, s |-> rest % 60]

\* The order of two ISO timestamps of one format, as SQLite compares text
IsoLeq(a, b) ==
  \E k \in 1..(Len(a) + 1) :
    /\ \A j \in 1..(k - 1) : a[j] = b[j]
    /\ k = Len(a) + 1 \/ a[k] < b[k]
Iso(t) == <<t.y, t.mo, t.d, t.h, t.mi, t.s>>

At(y, mo, d, h, mi, sec) == [y |-> y, mo |-> mo, d |-> d, h |-> h, mi |-> mi, s |-> sec]
\* The timestamps the stored reminders carry: a Monday at 09:00 and the
\* Tuesday after it at 09:01.
ReminderTimes == {At(2024, 2, 26, 9, 0, 0), At(2024, 2, 27, 9, 1, 0)}
\* The instants the loop is started at: before 09:00 on a Monday and on a
\* Tuesday, before 10:00 on a 5th and a 25th, and before a new year.
StartInstants ==
  {At(2024, 3, 4, 8, 59, 0), At(2024, 3, 12, 8, 59, 59), At(2024, 3, 5, 9, 59, 0),
   At(2024, 1, 25, 9, 59, 0), At(2024, 12, 31, 23, 59, 0)}

\* Database.create_reminder: a new row with sent = 0
create_reminder ==
  \E u \in WizardUsers, priority \in {1, 2}, at \in ReminderTimes,
     repeat_type \in {"none", "daily", "weekly"} :
    /\ Len(reminders) < MaxReminders
    /\ reminders' = Append(reminders,
         [id |-> Len(reminders) + 1, user_id |-> u, priority |-> priority,
          reminder_datetime |-> at, sent |-> 0, repeat_type |-> repeat_type])
    /\ UNCHANGED <<fsm, user_data, db, cache, clock, starts, last, tasks, acc,
                   now, due, outbox, ticks, report, ret, editing>>

\* ORDER BY priority ASC, reminder_datetime ASC (rows that tie: in id order)
Before(a, b) ==
  \/ a.priority < b.priority
  \/ /\ a.priority = b.priority
     /\ \/ ~IsoLeq(Iso(b.reminder_datetime), Iso(a.reminder_datetime))
        \/ a.reminder_datetime = b.reminder_datetime /\ a.id < b.id
RECURSIVE OrderBy(_)
OrderBy(rows) ==
  IF rows = {} THEN <<>>
  ELSE LET first == CHOOSE r \in rows : \A q \in rows \ {r} : Before(r, q)
       IN <<first>> \o OrderBy(rows \ {first})
Rows == {reminders[i] : i \in DOMAIN reminders}

\* SELECT * FROM reminders WHERE reminder_datetime <= ? AND sent = 0
\* AND repeat_type = 'none' ORDER BY ...
RegularReminders(t) ==
  OrderBy({r \in Rows : /\ IsoLeq(Iso(r.reminder_datetime), Iso(t))
                        /\ r.sent = 0 /\ r.repeat_type = "none"})
\* The recurring rows as a query that yields every row twice would list them
RecurringRemindersTwice ==
  OrderBy({r \in Rows : r.repeat_type # "none"}) \o OrderBy({r \in Rows : r.repeat_type # "none"})
\* SELECT * FROM reminders WHERE repeat_type != 'none' ORDER BY ...
RecurringReminders == OrderBy({r \in Rows : r.repeat_type # "none"})

\* reminder.get(key, default) on a row of aiosqlite.Row: the class has no
\* method get, the call raises AttributeError
RowGet(r, key) == Failed

\* The loop of get_due_reminders over the recurring rows; Failed when an
\* exception leaves the loop.
RECURSIVE FilterRecurring(_, _, _)
FilterRecurring(rows, t, out) ==
  IF rows = <<>> THEN Parsed(out)
  ELSE LET reminder == Head(rows)
           reminder_dt == reminder.reminder_datetime
           time_matches == reminder_dt.h = t.h /\ reminder_dt.mi = t.mi
           repeat_type == RowGet(reminder, "repeat_type")
       IN IF ~time_matches THEN FilterRecurring(Tail(rows), t, out)
          ELSE IF ~repeat_type.ok THEN Failed
          ELSE IF repeat_type.v = "daily"
               THEN FilterRecurring(Tail(rows), t, Append(out, reminder))
          ELSE IF /\ repeat_type.v = "weekly"
                  /\ Weekday(reminder_dt.y, reminder_dt.mo, reminder_dt.d)
                       = Weekday(t.y, t.mo, t.d)
               THEN FilterRecurring(Tail(rows), t, Append(out, reminder))
          ELSE FilterRecurring(Tail(rows), t, out)

\* The ids of the recurring rows the loop of get_due_reminders gets to, in
\* the order it takes them: the exception ends the loop.
RECURSIVE Evaluated(_, _)
Evaluated(rows, t) ==
  IF rows = <<>> THEN <<>>
  ELSE LET reminder == Head(rows)
           reminder_dt == reminder.reminder_datetime
           time_matches == reminder_dt.h = t.h /\ reminder_dt.mi = t.mi
       IN IF time_matches /\ ~RowGet(reminder, "repeat_type").ok
          THEN <<reminder.id>>
          ELSE <<reminder.id>> \o Evaluated(Tail(rows), t)

\* Database.get_due_reminders at the instant now; an exception is logged and
\* the result is the empty list.
get_due_reminders ==
  /\ LET regular_reminders == RegularReminders(now)
         filtered_recurring == FilterRecurring(RecurringReminders, now, <<>>)
     IN due' = [at |-> now,
                rows |-> IF filtered_recurring.ok
                         THEN regular_reminders \o filtered_recurring.v
                         ELSE <<>>,
                seen |-> Evaluated(RecurringReminders, now)]
  /\ UNCHANGED <<fsm, user_data, db, cache, clock, starts, last, tasks, acc,
                 reminders, now, outbox, ticks, report, ret, editing>>

\* Database.mark_reminder_sent: UPDATE reminders SET sent = 1 WHERE id = ?
mark_reminder_sent ==
  \E reminder_id \in 1..MaxReminders :
    /\ reminder_id \in DOMAIN reminders /\ reminders[reminder_id].sent = 0
    /\ reminders' = [reminders EXCEPT ![reminder_id].sent = 1]
    /\ UNCHANGED <<fsm, user_data, db, cache, clock, starts, last, tasks, acc,
                   now, due, outbox, ticks, report, ret, editing>>

\* Database.get_all_users: SELECT DISTINCT user_id FROM tips
RECURSIVE InOrder(_)
InOrder(us) ==
  IF us = {} THEN <<>>
  ELSE LET u == CHOOSE x \in us : \A z \in us : x <= z IN <<u>> \o InOrder(us \ {u})
get_all_users ==
  InOrder({db[i].user_id : i \in {j \in DOMAIN db : db[j].table = "tips" /\ db[j].live}})

\* Database.get_tips_stats_by_period: the user's shifts whose DD.MM.YYYY text
\* lies between the two texts (day, then month, then year decide)
ShiftsInPeriod(u, start_date, end_date) ==
  {i \in DOMAIN db :
     /\ db[i].table = "tips" /\ db[i].live /\ db[i].user_id = u
     /\ IsoLeq(start_date, db[i].data.tips_date[2])
     /\ IsoLeq(db[i].data.tips_date[2], end_date)}

\* The deliveries as they would be if the first failing delivery ended them
RECURSIVE SendPeriodRemindersUntilError(_, _, _, _)
SendPeriodRemindersUntilError(users, start_date, end_date, failing) ==
  IF users = <<>> \/ Head(users) \in failing THEN <<>>
  ELSE LET shifts == ShiftsInPeriod(Head(users), start_date, end_date)
           rest == SendPeriodRemindersUntilError(Tail(users), start_date, end_date, failing)
       IN IF shifts = {} THEN rest
          ELSE <<[user_id |-> Head(users), start_date |-> start_date,
                  end_date |-> end_date, shifts_count |-> Cardinality(shifts)]>> \o rest

\* send_period_reminder for each user of the list: nothing is sent to a user
\* without a shift in the period; for the users in failing bot.send_message
\* raises, which send_period_reminder catches and logs
RECURSIVE SendPeriodReminders(_, _, _, _)
SendPeriodReminders(users, start_date, end_date, failing) ==
  IF users = <<>> THEN <<>>
  ELSE LET shifts == ShiftsInPeriod(Head(users), start_date, end_date)
           rest == SendPeriodReminders(Tail(users), start_date, end_date, failing)
       IN IF shifts = {} \/ Head(users) \in failing THEN rest
          ELSE <<[user_id |-> Head(users), start_date |-> start_date,
                  end_date |-> end_date, shifts_count |-> Cardinality(shifts)]>> \o rest

\* The period as it would be with every fourth year taken for a leap year
PayrollPeriodEveryFourth(t) ==
  LET prev_month == IF t.mo = 1 THEN 12 ELSE t.mo - 1
      prev_year == IF t.mo = 1 THEN t.y - 1 ELSE t.y
      last_day == IF prev_month \in {1, 3, 5, 7, 8, 10, 12} THEN 31
                  ELSE IF prev_month \in {4, 6, 9, 11} THEN 30
                  ELSE IF prev_year % 4 = 0 THEN 29 ELSE 28
  IN IF t.h = 10 /\ t.mi = 0 /\ t.d = 5
     THEN [on |-> TRUE, start_date |-> <<15, prev_month, prev_year>>,
           end_date |-> <<last_day, prev_month, prev_year>>]
     ELSE IF t.h = 10 /\ t.mi = 0 /\ t.d = 25
     THEN [on |-> TRUE, start_date |-> <<1, t.mo, t.y>>, end_date |-> <<15, t.mo, t.y>>]
     ELSE [on |-> FALSE, start_date |-> <<>>, end_date |-> <<>>]

\* The period of an iteration of check_and_send_reminders that reads the
\* clock t: at 10:00 on the 5th the days 15..last day of the previous month,
\* at 10:00 on the 25th the days 1..15 of the month, otherwise none.
PayrollPeriod(t) ==
  LET prev_month == IF t.mo = 1 THEN 12 ELSE t.mo - 1
      prev_year == IF t.mo = 1 THEN t.y - 1 ELSE t.y
      last_day == IF prev_month \in {1, 3, 5, 7, 8, 10, 12} THEN 31
                  ELSE IF prev_month \in {4, 6, 9, 11} THEN 30
                  ELSE IF prev_year % 4 = 0 /\ (prev_year % 100 # 0 \/ prev_year % 400 = 0)
                       THEN 29 ELSE 28
  IN IF t.h = 10 /\ t.mi = 0 /\ t.d = 5
     THEN [on |-> TRUE, start_date |-> <<15, prev_month, prev_year>>,
           end_date |-> <<last_day, prev_month, prev_year>>]
     ELSE IF t.h = 10 /\ t.mi = 0 /\ t.d = 25
     THEN [on |-> TRUE, start_date |-> <<1, t.mo, t.y>>, end_date |-> <<15, t.mo, t.y>>]
     ELSE [on |-> FALSE, start_date |-> <<>>, end_date |-> <<>>]

\* The iteration as it would be with a sleep of half a minute
check_and_send_reminders_half_minute ==
  /\ ticks < MaxTicks
  /\ LET period == PayrollPeriod(now)
         users == get_all_users
     IN \E failing \in (IF period.on THEN SUBSET {users[i] : i \in DOMAIN users} ELSE {{}}) :
          /\ outbox' = IF period.on
                       THEN outbox \o SendPeriodReminders(users, period.start_date,
                                                          period.end_date, failing)
                       ELSE outbox
          /\ report' = IF period.on
                       THEN [on |-> TRUE, start_date |-> period.start_date,
                             end_date |-> period.end_date, failed |-> failing]
                       ELSE NoReport
  /\ \E work \in {0, 1} : now' = Later(now, 30 + work)
  /\ ticks' = ticks + 1
  /\ UNCHANGED <<fsm, user_data, db, cache, clock, starts, last, tasks, acc,
                 reminders, due, ret, editing>>

\* One iteration of check_and_send_reminders: the period reports of the
\* iteration, then asyncio.sleep(60). The work of the iteration takes time
\* too. An exception in the iteration is caught, logged and followed by the
\* same sleep.
check_and_send_reminders ==
  /\ ticks < MaxTicks
  /\ LET period == PayrollPeriod(now)
         users == get_all_users
     IN \E failing \in (IF period.on THEN SUBSET {users[i] : i \in DOMAIN users} ELSE {{}}) :
          /\ outbox' = IF period.on
                       THEN outbox \o SendPeriodReminders(users, period.start_date,
                                                          period.end_date, failing)
                       ELSE outbox
          /\ report' = IF period.on
                       THEN [on |-> TRUE, start_date |-> period.start_date,
                             end_date |-> period.end_date, failed |-> failing]
                       ELSE NoReport
  /\ \E work \in {0, 1} : now' = Later(now, 60 + work)
  /\ ticks' = ticks + 1
  /\ UNCHANGED <<fsm, user_data, db, cache, clock, starts, last, tasks, acc,
                 reminders, due, ret, editing>>

\* The shifts the tips table holds when the loop starts
Shift(u, date) ==
  Row("tips", u, [tips_date |-> Date(date), card_amount |-> Num(0),
                  netmonet_amount |-> Num(0), cash_amount |-> Num(0),
                  total_amount |-> Num(8 * HourlyRate * Scale),
                  hours_worked |-> Num(8 * Scale)])
InitSched ==
  \E start \in StartInstants,
     rows \in {<<>>, <<Shift(42, <<20, 2, 2024>>), Shift(4, <<10, 1, 2024>>)>>} :
    /\ fsm = [u \in Users |-> NoState]
    /\ user_data = [k \in Kinds |-> <<>>]
    /\ db = rows
    /\ cache = <<>>
    /\ clock = 0
    /\ starts = 0
    /\ last = [user |-> 0, handler |-> "none", text |-> NoText, state |-> NoState,
               result |-> "none", run |-> 0, base |-> <<>>, export |-> "none"]
    /\ tasks = <<>>
    /\ acc = NoAccess
    /\ reminders = <<>>
    /\ now = start
    /\ due = [at |-> start, rows |-> <<>>, seen |-> <<>>]
    /\ outbox = <<>>
    /\ ticks = 0
    /\ report = NoReport
    /\ ret = NoCall
    /\ state_data = [u \in Users |-> <<>>]
    /\ edits = 0

NextSched ==
  \/ create_reminder
  \/ get_due_reminders
  \/ mark_reminder_sent
  \/ check_and_send_reminders

SpecSched == InitSched /\ [][NextSched]_vars

\* The reminder loop alone, with an iteration that reads the clock shortly
\* before 10:00 (at 09:59:00 or at 09:59:59) on a 5th or a 25th of any month
\* of an ordinary year, a leap year and the century years.
PayrollYears == {1900, 2000, 2023, 2024, 2100}
InitPayroll ==
  \E y \in PayrollYears, mo \in 1..12, d \in {5, 25}, sec \in {0, 59},
     rows \in {<<>>, <<Shift(4, <<22, 2, 2024>>), Shift(42, <<20, 2, 2024>>)>>,
               <<Shift(42, <<3, 1, 2024>>)>>} :
    /\ fsm = [u \in Users |-> NoState]
    /\ user_data = [k \in Kinds |-> <<>>]
    /\ db = rows
    /\ cache = <<>>
    /\ clock = 0
    /\ starts = 0
    /\ last = [user |-> 0, handler |-> "none", text |-> NoText, state |-> NoState,
               result |-> "none", run |-> 0, base |-> <<>>, export |-> "none"]
    /\ tasks = <<>>
    /\ acc = NoAccess
    /\ reminders = <<>>
    /\ now = At(y, mo, d, 9, 59, sec)
    /\ due = [at |-> At(y, mo, d, 9, 59, sec), rows |-> <<>>, seen |-> <<>>]
    /\ outbox = <<>>
    /\ ticks = 0
    /\ report = NoReport
    /\ ret = NoCall
    /\ state_data = [u \in Users |-> <<>>]
    /\ edits = 0

NextPayroll == check_and_send_reminders

SpecPayroll == InitPayroll /\ [][NextPayroll]_vars

\* ==================================================================== cache
\* The cache taken alone: direct calls of SimpleCache.get, set and clear on
\* the keys of three users, and time passing between them.
MaxClock == 1200
CacheKeys == {StatsKey(4), StatsKey(42), StatsKey(43)}
CacheValues == {Num(7), Num(8)}
\* clear(pattern) with the pattern of a user; clear() without a pattern
CachePatterns == {UserPattern(4), UserPattern(42), UserPattern(43), <<>>}
Waits == {599, 600}

\* value = cache.get(key)
SimpleCache_get ==
  \E key \in CacheKeys :
    /\ cache' = CacheAfterGet(cache, key, clock)
    /\ ret' = [op |-> "get", key |-> key, value |-> CacheGet(cache, key, clock),
               removed |-> {}]
    /\ UNCHANGED <<fsm, user_data, db, clock, starts, last, tasks, acc, sched, editing>>

\* cache.set(key, value)
SimpleCache_set ==
  \E key \in CacheKeys, value \in CacheValues :
    /\ cache' = CacheSet(cache, key, value, clock)
    /\ ret' = [op |-> "set", key |-> key, value |-> value, removed |-> {}]
    /\ UNCHANGED <<fsm, user_data, db, clock, starts, last, tasks, acc, sched, editing>>

\* cache.clear(pattern)
SimpleCache_clear ==
  \E pattern \in CachePatterns :
    /\ cache' = CacheClear(cache, pattern)
    /\ ret' = [op |-> "clear", key |-> pattern, value |-> None,
               removed |-> (DOMAIN cache) \ DOMAIN CacheClear(cache, pattern)]
    /\ UNCHANGED <<fsm, user_data, db, clock, starts, last, tasks, acc, sched, editing>>

\* time.time() moves on between two calls
time_passes ==
  \E wait \in Waits :
    /\ clock + wait <= MaxClock
    /\ clock' = clock + wait
    /\ UNCHANGED <<fsm, user_data, db, cache, starts, last, tasks, acc, sched, ret, editing>>

NextCache ==
  \/ SimpleCache_get
  \/ SimpleCache_set
  \/ SimpleCache_clear
  \/ time_passes

SpecCache == Init /\ [][NextCache]_vars

\* ---------------------------------------------------------------- edit mode
\* The editing of a stored place: the callback edit_<id> opens the selection
\* of a field, each field has its own state and handler, every accepted input
\* is written at once with Database.update_place.
MaxEdits == 2

SelectingField == "EditPlaceStates:selecting_field"

\* field_map of edit_place_select_field: button -> field and state
field_map ==
  [b \in {"btn:edit_name", "btn:edit_type", "btn:edit_price", "btn:edit_cuisine",
          "btn:edit_status", "btn:edit_review", "btn:edit_address",
          "btn:edit_working_hours", "btn:edit_description", "btn:edit_social",
          "btn:edit_location"} |->
     CASE b = "btn:edit_name" -> [field |-> "name", state |-> "EditPlaceStates:editing_name"]
       [] b = "btn:edit_type" -> [field |-> "place_type", state |-> "EditPlaceStates:editing_type"]
       [] b = "btn:edit_price" ->
            [field |-> "price_category", state |-> "EditPlaceStates:editing_price"]
       [] b = "btn:edit_cuisine" -> [field |-> "cuisine", state |-> "EditPlaceStates:editing_cuisine"]
       [] b = "btn:edit_status" -> [field |-> "status", state |-> "EditPlaceStates:editing_status"]
       [] b = "btn:edit_review" -> [field |-> "review", state |-> "EditPlaceStates:editing_review"]
       [] b = "btn:edit_address" -> [field |-> "address", state |-> "EditPlaceStates:editing_address"]
       [] b = "btn:edit_working_hours" ->
            [field |-> "working_hours", state |-> "EditPlaceStates:editing_working_hours"]
       [] b = "btn:edit_description" ->
            [field |-> "description", state |-> "EditPlaceStates:editing_description"]
       [] b = "btn:edit_social" -> [field |-> "social_link", state |-> "EditPlaceStates:editing_social"]
       [] OTHER -> [field |-> "location", state |-> "EditPlaceStates:editing_location"]]

\* Database.get_place: SELECT * FROM places WHERE id = ? AND user_id = ?
\* (the id of a row is its position; None when there is no such row)
get_place(rows, place_id, u) ==
  IF /\ place_id \in DOMAIN rows /\ rows[place_id].table = "places"
     /\ rows[place_id].user_id = u /\ rows[place_id].live
  THEN rows[place_id].data ELSE <<>>

\* update_place as it would be with WHERE user_id = ? alone
update_place_of_user(rows, place_id, u, kwargs) ==
  LET set == {f \in DOMAIN kwargs : kwargs[f] # None}
  IN [i \in DOMAIN rows |->
        IF set # {} /\ rows[i].table = "places" /\ rows[i].user_id = u
        THEN [rows[i] EXCEPT !.data = [f \in set |-> kwargs[f]] @@ @]
        ELSE rows[i]]

\* Database.update_place: UPDATE places SET <the kwargs that are not None>
\* WHERE id = ? AND user_id = ?; nothing is run when every kwarg is None
update_place(rows, place_id, u, kwargs) ==
  LET set == {f \in DOMAIN kwargs : kwargs[f] # None}
  IN [i \in DOMAIN rows |->
        IF set # {} /\ i = place_id /\ rows[i].table = "places" /\ rows[i].user_id = u
        THEN [rows[i] EXCEPT !.data = [f \in set |-> kwargs[f]] @@ @]
        ELSE rows[i]]

\* await state.update_data(**d)
UpdateData(u, d) == state_data' = [state_data EXCEPT ![u] = d @@ @]

\* callback edit_<place_id>: get_place, then update_data and set_state
edit_place_start(u) ==
  \E place_id \in 1..3, found \in BOOLEAN :
    /\ LET place == IF found THEN get_place(db, place_id, u) ELSE <<>>
       IN IF place = <<>>
          THEN /\ UNCHANGED <<fsm, state_data>>
               /\ Seen(u, "edit_place_start", "cb:edit", "rejected")
          ELSE /\ UpdateData(u, [editing_place_id |-> place_id,
                                 editing_place_name |-> place["name"]])
               /\ SetState(u, SelectingField)
               /\ Seen(u, "edit_place_start", "cb:edit", "opened")
    /\ UNCHANGED <<user_data, db, cache, clock, starts, tasks, acc, sched, ret, edits>>

DONE == "btn:done"

edit_place_select_field(u) ==
  \E t \in {DONE, "abc"} \cup DOMAIN field_map :
    /\ fsm[u] = SelectingField
    /\ IF t = DONE
       THEN /\ Clear(u)
            /\ state_data' = [state_data EXCEPT ![u] = <<>>]
            /\ Seen(u, "edit_place_select_field", t, "finished")
       ELSE IF t \notin DOMAIN field_map
            THEN /\ UNCHANGED <<fsm, state_data>>
                 /\ Seen(u, "edit_place_select_field", t, "rejected")
       ELSE /\ UpdateData(u, [editing_field |-> field_map[t].field])
            /\ SetState(u, field_map[t].state)
            /\ Seen(u, "edit_place_select_field", t, "selected")
    /\ UNCHANGED <<user_data, db, cache, clock, starts, tasks, acc, sched, ret, edits>>

\* The cancel branch of every field handler: back to the selection
EditCancel(u, h, t) ==
  /\ SetState(u, SelectingField)
  /\ Seen(u, h, t, "cancelled")
  /\ UNCHANGED <<db, cache, state_data, edits>>

\* await db.update_place(place_id, user_id, **kwargs), which returns False
\* with nothing written on an exception; cache.clear; update_data(d) (the
\* name handler only); set_state(selecting_field)
EditUpdate(u, h, t, kwargs, d) ==
  /\ edits < MaxEdits
  /\ edits' = edits + 1
  /\ \E done \in BOOLEAN :
       /\ db' = IF done
                THEN update_place(db, Field(state_data[u], "editing_place_id"), u, kwargs)
                ELSE db
       /\ Seen(u, h, t, IF done THEN "updated" ELSE "update_failed")
  /\ cache' = CacheClear(cache, UserPattern(u))
  /\ UpdateData(u, d)
  /\ SetState(u, SelectingField)

\* The handlers that write the text as it is
EditText(u, h, st, f, texts) ==
  \E t \in texts :
    /\ fsm[u] = st
    /\ IF t = CANCEL THEN EditCancel(u, h, t)
       ELSE EditUpdate(u, h, t, (f :> Str(t)),
                       IF f = "name" THEN [editing_place_name |-> Str(t)] ELSE <<>>)
    /\ UNCHANGED <<user_data, clock, starts, tasks, acc, sched, ret>>

edit_place_name(u) ==
  /\ fsm[u] = "EditPlaceStates:editing_name"
  /\ EditText(u, "edit_place_name", "EditPlaceStates:editing_name", "name",
              {CANCEL, "pushkin"})

edit_place_type(u) ==
  /\ fsm[u] = "EditPlaceStates:editing_type"
  /\ EditText(u, "edit_place_type", "EditPlaceStates:editing_type", "place_type",
              {CANCEL, "btn:park"})

edit_place_cuisine(u) ==
  \E t \in {CANCEL, "btn:italian", "abc"} :
    /\ fsm[u] = "EditPlaceStates:editing_cuisine"
    /\ IF t = CANCEL THEN EditCancel(u, "edit_place_cuisine", t)
       ELSE EditUpdate(u, "edit_place_cuisine", t,
                       [cuisine |-> Str(IF t \in DOMAIN CUISINE_TYPES
                                        THEN CUISINE_TYPES[t] ELSE t)], <<>>)
    /\ UNCHANGED <<user_data, clock, starts, tasks, acc, sched, ret>>

edit_place_price(u) ==
  /\ fsm[u] = "EditPlaceStates:editing_price"
  /\ EditText(u, "edit_place_price", "EditPlaceStates:editing_price", "price_category",
              {CANCEL, "btn:price2"})

edit_place_status(u) ==
  \E t \in {CANCEL, "btn:visited", "btn:planned", "abc"} :
    /\ fsm[u] = "EditPlaceStates:editing_status"
    /\ IF t = CANCEL THEN EditCancel(u, "edit_place_status", t)
       ELSE EditUpdate(u, "edit_place_status", t,
                       [status |-> Str(IF t = "btn:visited" THEN "visited" ELSE "planned")],
                       <<>>)
    /\ UNCHANGED <<user_data, clock, starts, tasks, acc, sched, ret>>

edit_place_review(u) ==
  /\ fsm[u] = "EditPlaceStates:editing_review"
  /\ EditText(u, "edit_place_review", "EditPlaceStates:editing_review", "review",
              {CANCEL, "cosy"})

edit_place_address(u) ==
  /\ fsm[u] = "EditPlaceStates:editing_address"
  /\ EditText(u, "edit_place_address", "EditPlaceStates:editing_address", "address",
              {CANCEL, "arbat 1"})

edit_place_working_hours(u) ==
  /\ fsm[u] = "EditPlaceStates:editing_working_hours"
  /\ EditText(u, "edit_place_working_hours", "EditPlaceStates:editing_working_hours",
              "working_hours", {CANCEL, "12-24"})

edit_place_description(u) ==
  /\ fsm[u] = "EditPlaceStates:editing_description"
  /\ EditText(u, "edit_place_description", "EditPlaceStates:editing_description",
              "description", {CANCEL, "nice"})

\* social_link = message.text, as it is
edit_place_social(u) ==
  \E t \in {CANCEL, "insta", "@insta"} :
    /\ fsm[u] = "EditPlaceStates:editing_social"
    /\ IF t = CANCEL THEN EditCancel(u, "edit_place_social", t)
       ELSE EditUpdate(u, "edit_place_social", t, [social_link |-> <<"chars", Chars(t)>>],
                       <<>>)
    /\ UNCHANGED <<user_data, clock, starts, tasks, acc, sched, ret>>

\* A shared location, or text.replace(',', ' ').split(), float() of the two
\* parts and the range test; then "if latitude and longitude", which a zero
\* fails, before the update.
edit_place_location(u) ==
  \E m \in {Location} \cup
           {Text(t) : t \in {CANCEL, "0, 37.6173", "55.7558, 37.6173", "-90,180", "91,200",
                            "abc"}} :
    /\ fsm[u] = "EditPlaceStates:editing_location"
    /\ LET h == "edit_place_location"
           c == IF m.kind = "location"
                THEN Parsed(<<SharedLocation.latitude, SharedLocation.longitude>>)
                ELSE ParseCoordinates(Chars(m.text))
       IN IF m.text = CANCEL THEN EditCancel(u, h, m.text)
          ELSE IF ~c.ok \/ c.v[1] = 0 \/ c.v[2] = 0
               THEN /\ UNCHANGED <<fsm, db, cache, state_data, edits>>
                    /\ Seen(u, h, m.text, "rejected")
          ELSE EditUpdate(u, h, m.text,
                          [latitude |-> Num(c.v[1]), longitude |-> Num(c.v[2])], <<>>)
    /\ UNCHANGED <<user_data, clock, starts, tasks, acc, sched, ret>>

\* What the step of the add-place wizard for the field does with message m
\* (other than the cancel button): it keeps the state and stores nothing
\* ("reject"), or goes on with the values it puts into the draft ("store",
\* with no value when it goes on and stores nothing). From process_place_type,
\* process_cuisine, process_price_category, process_status, process_review,
\* process_place_address, process_place_description, process_place_social,
\* process_location and process_text_coordinates.
AddPlaceStep(field, m) ==
  LET t == m.text
      keep == [kind |-> "reject", value |-> <<>>]
      store(v) == [kind |-> "store", value |-> v]
  IN CASE field \in {"place_type", "price_category"} -> store((field :> Str(t)))
       [] field = "cuisine" ->
            IF t \in DOMAIN CUISINE_TYPES THEN store([cuisine |-> Str(CUISINE_TYPES[t])])
            ELSE store(<<>>)
       [] field = "status" ->
            IF t = "btn:visited" THEN store([status |-> Str("visited")])
            ELSE IF t = "btn:planned" THEN store([status |-> Str("planned")])
            ELSE keep
       [] field \in {"review", "address", "description"} ->
            IF t = SKIP THEN store(<<>>) ELSE store((field :> Str(t)))
       [] field = "social_link" ->
            IF t = SKIP THEN store(<<>>)
            ELSE store([social_link |-> <<"chars", SocialLink(Chars(t))>>])
       [] OTHER ->
            IF m.kind = "location"
            THEN store([latitude |-> Num(SharedLocation.latitude),
                        longitude |-> Num(SharedLocation.longitude)])
            ELSE IF ParseCoordinates(Chars(t)).ok
                 THEN store([latitude |-> Num(ParseCoordinates(Chars(t)).v[1]),
                             longitude |-> Num(ParseCoordinates(Chars(t)).v[2])])
            ELSE keep

\* The places the table holds when the editing starts: two of user 42, one
\* of user 4.
StoredPlace(u, name, status) ==
  Row("places", u, PlaceColumns([name |-> Str(name), place_type |-> Str("btn:bar"),
                                 status |-> Str(status), latitude |-> Num(557558),
                                 longitude |-> Num(376173)]))
InitEdit ==
  /\ fsm = [u \in Users |-> NoState]
  /\ user_data = [k \in Kinds |-> <<>>]
  /\ db = <<StoredPlace(42, "Pushkin", "planned"), StoredPlace(4, "Gorky", "visited"),
            StoredPlace(42, "Arbat", "visited"),
            Row("notes", 42, [category |-> Str("ideas"), text |-> Str("buy milk")]),
            Row("notes", 4, [category |-> Str("ideas"), text |-> Str("call home")])>>
  /\ cache = <<>>
  /\ clock = 0
  /\ starts = 0
  /\ last = [user |-> 0, handler |-> "none", text |-> NoText, state |-> NoState,
             result |-> "none", run |-> 0, base |-> <<>>, export |-> "none"]
  /\ tasks = <<>>
  /\ acc = NoAccess
  /\ reminders = <<>>
  /\ now = [y |-> 2024, mo |-> 3, d |-> 15, h |-> 12, mi |-> 0, s |-> 0]
  /\ due = [at |-> now, rows |-> <<>>, seen |-> <<>>]
  /\ outbox = <<>>
  /\ ticks = 0
  /\ report = NoReport
  /\ ret = NoCall
  /\ state_data = [u \in Users |-> <<>>]
  /\ edits = 0

NextEdit ==
  \E u \in WizardUsers :
    \/ edit_place_start(u)
    \/ edit_place_select_field(u)
    \/ edit_place_name(u)
    \/ edit_place_type(u)
    \/ edit_place_cuisine(u)
    \/ edit_place_price(u)
    \/ edit_place_status(u)
    \/ edit_place_review(u)
    \/ edit_place_address(u)
    \/ edit_place_working_hours(u)
    \/ edit_place_description(u)
    \/ edit_place_social(u)
    \/ edit_place_location(u)

SpecEdit == InitEdit /\ [][NextEdit]_vars

\* ------------------------------------------- updates and deletes by record id
\* The ids a callback carries here: of a place and of a note of user 42 and
\* of a place and of a note of user 4 (the id of a row is its position).
\* Telegram does not check the callback data, a user can send any id.
PlaceIds == {1, 2}
NoteIds == {4, 5}

WaitingForEdit == "QuickNoteStates:waiting_for_edit"

\* Database.delete_place: DELETE FROM places WHERE id = ? AND user_id = ?
Database_delete_place(rows, place_id, u) ==
  [i \in DOMAIN rows |->
     IF i = place_id /\ rows[i].table = "places" /\ rows[i].user_id = u
     THEN [rows[i] EXCEPT !.live = FALSE] ELSE rows[i]]

\* Database.update_note: UPDATE notes SET text = ? WHERE id = ? AND user_id = ?
Database_update_note(rows, note_id, u, new_text) ==
  [i \in DOMAIN rows |->
     IF i = note_id /\ rows[i].table = "notes" /\ rows[i].user_id = u
     THEN [rows[i] EXCEPT !.data = [text |-> new_text] @@ @] ELSE rows[i]]

\* Database.delete_note: DELETE FROM notes WHERE id = ? AND user_id = ?
Database_delete_note(rows, note_id, u) ==
  [i \in DOMAIN rows |->
     IF i = note_id /\ rows[i].table = "notes" /\ rows[i].user_id = u
     THEN [rows[i] EXCEPT !.live = FALSE] ELSE rows[i]]

\* callback mark_visited_<id>: get_place, update_place(status='visited'),
\* cache.clear
mark_place_visited(u) ==
  \E place_id \in PlaceIds, done \in BOOLEAN :
    /\ LET place == get_place(db, place_id, u)
       IN IF place = <<>>
          THEN /\ UNCHANGED <<db, cache>>
               /\ Seen(u, "mark_place_visited", "cb:mark_visited", "rejected")
          ELSE /\ db' = IF done
                        THEN update_place(db, place_id, u, [status |-> Str("visited")])
                        ELSE db
               /\ cache' = CacheClear(cache, UserPattern(u))
               /\ Seen(u, "mark_place_visited", "cb:mark_visited",
                       IF done THEN "updated" ELSE "update_failed")
    /\ UNCHANGED <<fsm, user_data, clock, starts, tasks, acc, sched, ret, editing>>

\* callback confirm_delete_<id>: db.delete_place, cache.clear
delete_place(u) ==
  \E place_id \in PlaceIds, done \in BOOLEAN :
    /\ db' = IF done THEN Database_delete_place(db, place_id, u) ELSE db
    /\ cache' = CacheClear(cache, UserPattern(u))
    /\ Seen(u, "delete_place", "cb:confirm_delete", "deleted")
    /\ UNCHANGED <<fsm, user_data, clock, starts, tasks, acc, sched, ret, editing>>

\* callback edit_note_<id>: update_data(note_id=...), set_state(waiting_for_edit)
edit_note_callback(u) ==
  \E note_id \in NoteIds :
    /\ UpdateData(u, [note_id |-> note_id])
    /\ SetState(u, WaitingForEdit)
    /\ Seen(u, "edit_note_callback", "cb:edit_note", "opened")
    /\ UNCHANGED <<user_data, db, cache, clock, starts, tasks, acc, sched, ret, edits>>

\* The text sent at waiting_for_edit: cancel clears the state; any other text
\* goes to db.update_note, which returns True unless an exception was raised;
\* then state.clear()
process_note_edit(u) ==
  \E t \in {CANCEL, "new text"}, done \in BOOLEAN :
    /\ fsm[u] = WaitingForEdit
    /\ IF t = CANCEL
       THEN /\ UNCHANGED db
            /\ Seen(u, "process_note_edit", t, "cancelled")
       ELSE /\ db' = IF done
                     THEN Database_update_note(db, Field(state_data[u], "note_id"), u, Str(t))
                     ELSE db
            /\ Seen(u, "process_note_edit", t, IF done THEN "updated" ELSE "update_failed")
    /\ Clear(u)
    /\ state_data' = [state_data EXCEPT ![u] = <<>>]
    /\ UNCHANGED <<user_data, cache, clock, starts, tasks, acc, sched, ret, edits>>

\* callback delete_note_<id>: db.delete_note
delete_note_callback(u) ==
  \E note_id \in NoteIds, done \in BOOLEAN :
    /\ db' = IF done THEN Database_delete_note(db, note_id, u) ELSE db
    /\ Seen(u, "delete_note_callback", "cb:delete_note",
            IF done THEN "deleted" ELSE "delete_failed")
    /\ UNCHANGED <<fsm, user_data, cache, clock, starts, tasks, acc, sched, ret, editing>>

NextOwner ==
  \E u \in WizardUsers :
    \/ mark_place_visited(u)
    \/ delete_place(u)
    \/ edit_place_start(u)
    \/ edit_place_select_field(u)
    \/ edit_place_name(u)
    \/ edit_note_callback(u)
    \/ process_note_edit(u)
    \/ delete_note_callback(u)

SpecOwner == InitEdit /\ [][NextOwner]_vars


\* ================================================================= claims
\* The update handled last was the cancel button, sent in a wizard state.
CancelHandled == last.text = CANCEL /\ last.state \in WizardStates

\* C1: in every add-wizard and at every state of it, once the cancel button
\* has been handled the user has no active wizard state.
C1_CancelEndsSession == CancelHandled => fsm[last.user] = NoState

\* C2: after the cancel button has been handled at any state of any
\* add-wizard, no draft of that user and wizard kind remains.
C2_CancelDiscardsDraft == CancelHandled => ~HasDraft(KindOf(last.state), last.user)

\* C3: when the persistence call of a commit step fails, the draft of that
\* user and kind still exists and the session is still at its last step.
C3_FailedCommitKeepsDraft ==
  last.result = "commit_failed" =>
    /\ HasDraft(KindOf(last.state), last.user)
    /\ fsm[last.user] = last.state

\* The inputs that fail the validation of a step: an unparsable or out-of-range
\* number, a date that does not exist, coordinates out of range, a text that
\* is none of the step's buttons.
AmountStates ==
  {"AddExpenseStates:waiting_for_amount", "AddRecurringExpenseStates:waiting_for_amount",
   "AddAvitoStates:waiting_for_amount", "AddTipsStates:waiting_for_card",
   "AddTipsStates:waiting_for_netmonet", "AddTipsStates:waiting_for_cash"}
YearStates == {"AddMovieStates:waiting_for_year", "AddSeriesStates:waiting_for_year"}
CountStates == {"AddSeriesStates:waiting_for_seasons", "AddSeriesStates:waiting_for_episodes"}
DateStates ==
  {"AddExpenseStates:waiting_for_date", "AddRecurringExpenseStates:waiting_for_date",
   "AddAvitoStates:waiting_for_date", "AddTipsStates:waiting_for_date"}
ButtonStates ==
  {"QuickNoteStates:waiting_for_category", "AddPlaceStates:choosing_from_search",
   "AddPlaceStates:choosing_fill_method", "AddPlaceStates:waiting_for_cuisine",
   "AddPlaceStates:waiting_for_status", "AddExpenseStates:waiting_for_date_choice",
   "AddExpenseStates:waiting_for_note_choice", "AddMovieStates:waiting_for_status",
   "AddMovieStates:waiting_for_rating", "AddSeriesStates:waiting_for_status",
   "AddSeriesStates:waiting_for_rating", "AddWishlistStates:waiting_for_size_category",
   "AddWishlistStates:waiting_for_type_category", "AddWishlistStates:waiting_for_priority"}
FailsValidation(st, t) ==
  \/ st \in AmountStates /\ t \in {"abc", "-3"}
  \/ st = "AddTipsStates:waiting_for_hours" /\ t \in {"abc", "-3", "0"}
  \/ st = "AddWishlistStates:waiting_for_price" /\ t = "abc"
  \/ st \in YearStates /\ t \in {"abc", "1799"}
  \/ st \in CountStates /\ t \in {"abc", "0", "-3", "12,5"}
  \/ st \in DateStates /\ t \in {"abc", "31.02", "29.02.2023"}
  \/ st = "AddPlaceStates:waiting_for_location" /\ t \in {"abc", "91,200"}
  \/ st \in ButtonStates /\ t = "abc"

\* C4: in every wizard step that validates its input, an input that fails
\* the validation leaves the session state and the draft as they were.
C4_InvalidInputChangesNothing ==
  [][FailsValidation(last'.state, last'.text) =>
       fsm' = fsm /\ user_data' = user_data]_vars

\* C5: the run start, category, name, amount "450", today, skip the note adds
\* exactly one record, an expense of amount 450 (when the database stores it),
\* and leaves that user without an expense draft and without a session.
C5_ExpenseRunCommitsOnce ==
  [][/\ last'.run \in 1..5 => db' = db
     /\ last'.run = 6 =>
          /\ last'.result \in {"committed", "commit_failed"}
          /\ ~(HasDraft("expense", last.user))'
          /\ fsm'[last'.user] = NoState
          /\ last'.result = "commit_failed" => db' = db
          /\ last'.result = "committed" =>
               /\ Len(db') = Len(db) + 1
               /\ SubSeq(db', 1, Len(db)) = db
               /\ db'[Len(db')].table = "expenses"
               /\ db'[Len(db')].user_id = last'.user
               /\ db'[Len(db')].data["amount"] = Num(450 * Scale)
               /\ db'[Len(db')].data["category"] = Str("food")
               /\ db'[Len(db')].data["name"] = Str("Lunch")
               /\ db'[Len(db')].data["expense_date"] = Date(Today)
               /\ db'[Len(db')].data["note"] = None]_vars

\* The run of C5 has been handled to its end and the record stored.
C5_Witness ==
  /\ last.run = 6 /\ last.result = "committed"
  /\ Len(db) = 1 /\ db[1].data["amount"] = Num(450 * Scale)

\* C6: in every reachable state a draft exists for a user and a wizard kind
\* exactly when that user has an active session in that wizard.
C6_DraftIffSession ==
  \A u \in Users, k \in Kinds :
    HasDraft(k, u) <=> (fsm[u] # NoState /\ KindOf(fsm[u]) = k)

\* C7: while a handler is between its first and its last access to a user's
\* draft, no other handler of that user and wizard touches the draft or the
\* session state.
C7_HandlersSerialized ==
  \A i \in DOMAIN tasks :
    ~(/\ acc.task # 0 /\ i # acc.task
      /\ tasks[i].mid
      /\ tasks[i].user = acc.user /\ tasks[i].kind = acc.kind)

\* C8: a statistics read that begins when every earlier place write has been
\* followed by its cache invalidation shows a count the table held while the
\* read ran, under every interleaving.
C8_ReadAfterClearSeesWrite ==
  \A i \in DOMAIN tasks :
    (tasks[i].handler = "show_stats" /\ tasks[i].pc = "done" /\ tasks[i].clean) =>
      (tasks[i].lo <= tasks[i].loc[2] /\ tasks[i].loc[2] <= tasks[i].hi)

\* C9: at a tick of the reminder loop every one-shot reminder that is due
\* (repeat none, sent = 0, scheduled time <= now) is handed to the notifier
\* and is marked sent = 1.
DueOneShot(r, t) ==
  r.repeat_type = "none" /\ r.sent = 0 /\ IsoLeq(Iso(r.reminder_datetime), Iso(t))
Notified(box, r) ==
  \E j \in DOMAIN box : "reminder_id" \in DOMAIN box[j] /\ box[j].reminder_id = r.id
C9_DueOneShotDelivered ==
  [][ticks' = ticks + 1 =>
       \A i \in DOMAIN reminders :
         DueOneShot(reminders[i], now) =>
           (reminders'[i].sent = 1 /\ Notified(outbox', reminders[i]))]_vars

\* C10: a call of get_due_reminders reports a weekly reminder exactly when the
\* weekday, the hour and the minute of the call equal the reminder's.
WeeklyMatch(r, t) ==
  /\ Weekday(r.reminder_datetime.y, r.reminder_datetime.mo, r.reminder_datetime.d)
       = Weekday(t.y, t.mo, t.d)
  /\ r.reminder_datetime.h = t.h /\ r.reminder_datetime.mi = t.mi
Reported(rows, r) == \E j \in DOMAIN rows : rows[j].id = r.id
C10_WeeklyDueOnMatch ==
  [][due' # due =>
       \A i \in DOMAIN reminders :
         reminders[i].repeat_type = "weekly" =>
           (Reported(due'.rows, reminders[i]) <=> WeeklyMatch(reminders[i], due'.at))]_vars

\* C11: a call of get_due_reminders reports a one-shot reminder exactly when
\* its sent flag is 0 and its scheduled time is <= now, and the one-shot
\* reminders it reports come by priority ascending and, within one priority,
\* by scheduled time ascending.
C11_OneShotDueAndOrdered ==
  [][due' # due =>
       /\ \A i \in DOMAIN reminders :
            reminders[i].repeat_type = "none" =>
              (Reported(due'.rows, reminders[i]) <=> DueOneShot(reminders[i], due'.at))
       /\ \A j, k \in DOMAIN due'.rows :
            (j < k /\ due'.rows[j].repeat_type = "none" /\ due'.rows[k].repeat_type = "none") =>
              \/ due'.rows[j].priority < due'.rows[k].priority
              \/ /\ due'.rows[j].priority = due'.rows[k].priority
                 /\ IsoLeq(Iso(due'.rows[j].reminder_datetime),
                           Iso(due'.rows[k].reminder_datetime))]_vars

GregorianLeap(y) == (y % 4 = 0 /\ y % 100 # 0) \/ y % 400 = 0
GregorianLength(m, y) ==
  <<31, IF GregorianLeap(y) THEN 29 ELSE 28, 31, 30, 31, 30, 31, 31, 30, 31, 30, 31>>[m]
C13_PayrollPeriod ==
  [][ticks' = ticks + 1 =>
       LET pm == IF now.mo = 1 THEN 12 ELSE now.mo - 1
           py == IF now.mo = 1 THEN now.y - 1 ELSE now.y
       IN IF now.h = 10 /\ now.mi = 0 /\ now.d = 5
          THEN /\ report'.on
               /\ report'.start_date = <<15, pm, py>>
               /\ report'.end_date = <<GregorianLength(pm, py), pm, py>>
          ELSE IF now.h = 10 /\ now.mi = 0 /\ now.d = 25
          THEN /\ report'.on
               /\ report'.start_date = <<1, now.mo, now.y>>
               /\ report'.end_date = <<15, now.mo, now.y>>
          ELSE ~report'.on]_vars

\* The iteration of 5 March 1900 has had its period, which ends on 28 February.
C13_Witness ==
  report.on /\ report.start_date = <<15, 2, 1900>> /\ report.end_date = <<28, 2, 1900>>

\* C14: in an iteration with a period every user with a shift in the period
\* whose own delivery does not fail gets the report, whichever other
\* deliveries fail; and after every iteration, failed or not, the loop can
\* take its next iteration.
C14_DeliveryErrorsContained ==
  /\ [][(ticks' = ticks + 1 /\ report'.on) =>
          \A u \in Users :
            (/\ ShiftsInPeriod(u, report'.start_date, report'.end_date) # {}
             /\ u \notin report'.failed) =>
              \E j \in (Len(outbox) + 1)..Len(outbox') :
                /\ outbox'[j].user_id = u
                /\ outbox'[j].start_date = report'.start_date
                /\ outbox'[j].end_date = report'.end_date]_vars
  /\ [](ticks < MaxTicks => ENABLED check_and_send_reminders)

\* The delivery to user 4 has failed and user 42, who comes after user 4, has
\* got the report of the same iteration; the loop has gone on.
C14_Witness ==
  /\ report.on /\ report.failed = {4}
  /\ ShiftsInPeriod(4, report.start_date, report.end_date) # {}
  /\ \E j \in DOMAIN outbox : outbox[j].user_id = 42 /\ outbox[j].end_date = report.end_date

\* C15: a get of a key that was set fewer than ttl seconds ago returns the
\* value of that set and leaves the cache as it is; a get ttl seconds or more
\* after the set returns a miss and removes the entry; a set stores the value
\* with the time of the set.
C15_TtlHitThenMiss ==
  [][(clock' = clock /\ ret'.op \in {"get", "set"}) =>
       LET k == ret'.key
       IN IF ret'.op = "set"
          THEN k \in DOMAIN cache' /\ cache'[k] = <<ret'.value, clock>>
          ELSE IF k \in DOMAIN cache /\ clock - cache[k][2] < ttl
          THEN ret'.value = cache[k][1] /\ cache' = cache
          ELSE /\ ret'.value = None
               /\ k \notin DOMAIN cache'
               /\ \A j \in (DOMAIN cache) \ {k} : j \in DOMAIN cache' /\ cache'[j] = cache[j]]_vars

\* A get exactly ttl seconds after the set of the key has missed and removed
\* the entry, while an entry set 599 seconds before the get is still there.
C15_Witness ==
  /\ ret.op = "get" /\ ret.key = StatsKey(42) /\ ret.value = None
  /\ clock = 1199 /\ StatsKey(42) \notin DOMAIN cache
  /\ StatsKey(43) \in DOMAIN cache /\ cache[StatsKey(43)][2] = 600

\* C16: clear(pattern) removes exactly the entries whose key contains the
\* pattern as a substring and leaves every other entry as it was, value and
\* time included.
HasSubstring(key, pat) ==
  \E i \in 1..(Len(key) + 1), j \in 0..Len(key) : SubSeq(key, i, j) = pat
C16_ClearByPattern ==
  [][(clock' = clock /\ ret'.op = "clear") =>
       /\ DOMAIN cache' = {k \in DOMAIN cache : ~HasSubstring(k, ret'.key)}
       /\ \A k \in DOMAIN cache' : cache'[k] = cache[k]]_vars

\* clear("_42") has removed "stats_42" and kept "stats_43".
C16_Witness ==
  /\ ret.op = "clear" /\ ret.key = UserPattern(42)
  /\ ret.removed = {StatsKey(42)}
  /\ StatsKey(43) \in DOMAIN cache

\* C17 as claimed: every commit that has made its persistence call and has
\* run to its end has made the persistence call, then invalidated the cache
\* of the user, then cleared the draft.
Commits == {"save_place", "save_expense"}
IsPrefix(a, b) == Len(a) <= Len(b) /\ SubSeq(b, 1, Len(a)) = a
CommitOrder(h) ==
  IF h = "save_place" THEN <<"persist", "invalidate", "clear">> ELSE <<"persist", "clear">>
C18_CancelStoresNothing ==
  (last.result = "cancelled" /\ last.state # NoState) => db = last.base

\* The wishlist wizard was cancelled at its last step, the link, with the
\* name, the categories, the price, the priority and the photo in the draft.
C18_Witness ==
  /\ last.result = "cancelled"
  /\ last.handler = "process_wishlist_link"
  /\ last.state = "AddWishlistStates:waiting_for_link"
  /\ fsm[last.user] = NoState
  /\ ~HasDraft("wishlist", last.user)
  /\ db = last.base

\* C19: every step that collects a money amount or worked hours rejects the
\* negative value "-3": the state does not advance and the draft is left as
\* it was.
MoneyStates ==
  AmountStates \cup {"AddTipsStates:waiting_for_hours", "AddWishlistStates:waiting_for_price"}
C19_NegativeRejected ==
  [][(last' # last /\ last'.text = "-3" /\ last'.state \in MoneyStates) =>
       (last'.result = "rejected" /\ fsm' = fsm /\ user_data' = user_data)]_vars

\* C20: every free-text date step accepts a text exactly when it is two or
\* three numerals separated by dots (day, month and, when given, year; the
\* current year otherwise) that name a date of the Gregorian calendar; an
\* accepted text puts that date into the draft or the stored row, a rejected
\* text leaves the state and the draft as they were.
RECURSIVE Numerals(_)
Numerals(s) ==
  IF \A i \in DOMAIN s : s[i] # "." THEN <<s>>
  ELSE LET i == CHOOSE i \in DOMAIN s : s[i] = "." /\ \A j \in 1..(i - 1) : s[j] # "."
       IN <<SubSeq(s, 1, i - 1)>> \o Numerals(SubSeq(s, i + 1, Len(s)))
DenotedDate(t) ==
  LET parts == Numerals(Chars(t))
      val(k) == DigitsVal(parts[k])
  IN IF /\ Len(parts) \in {2, 3}
        /\ \A k \in DOMAIN parts : parts[k] # <<>> /\ \A i \in DOMAIN parts[k] : IsDigit(parts[k][i])
     THEN LET y == IF Len(parts) = 3 THEN val(3) ELSE Today[3]
          IN IF /\ y \in 1..9999 /\ val(2) \in 1..12
                /\ val(1) \in 1..GregorianLength(val(2), y)
             THEN <<val(1), val(2), y>> ELSE <<>>
     ELSE <<>>
DateField(st) ==
  CASE st = "AddExpenseStates:waiting_for_date" -> "expense_date"
    [] st = "AddRecurringExpenseStates:waiting_for_date" -> "payment_date"
    [] st = "AddAvitoStates:waiting_for_date" -> "sale_date"
    [] OTHER -> "date"
DateColumn(st) ==
  IF st = "AddTipsStates:waiting_for_date" THEN "tips_date" ELSE DateField(st)
C20_DateAcceptedIffExists ==
  [][(/\ last' # last /\ last'.state \in DateStates
      /\ last'.handler = StateTable[last'.state].handler
      /\ last'.text \in DateInputs) =>
       IF DenotedDate(last'.text) = <<>>
       THEN last'.result = "rejected" /\ fsm' = fsm /\ user_data' = user_data /\ db' = db
       ELSE /\ last'.result \in {"stored", "committed", "commit_failed"}
            /\ fsm'[last'.user] # last'.state
            /\ last'.result = "stored" =>
                 user_data'[KindOf(last'.state)][last'.user][DateField(last'.state)]
                   = Date(DenotedDate(last'.text))
            /\ last'.result = "committed" =>
                 db'[Len(db')].data[DateColumn(last'.state)] = Date(DenotedDate(last'.text))]_vars

\* The tips wizard has just stored its row with the leap day 29.02.2024.
C20_Witness ==
  /\ last.state = "AddTipsStates:waiting_for_date"
  /\ last.text = "29.02.2024"
  /\ last.result = "committed"
  /\ db # <<>> /\ db[Len(db)].data["tips_date"] = Date(<<29, 2, 2024>>)

\* C21: the location step of the place wizard accepts a text exactly when it
\* is two numbers separated by commas and/or blanks, the first in [-90, 90]
\* and the second in [-180, 180]; an accepted text commits the place with
\* that pair ("lat, lon" and "lat lon" give the same pair), a rejected text
\* leaves the state, the draft and the database as they were.
RECURSIVE Tokens(_)
Tokens(s) ==
  IF s = <<>> THEN <<>>
  ELSE IF Head(s) \in {",", " "} THEN Tokens(Tail(s))
  ELSE LET n == CHOOSE n \in 1..Len(s) :
                  /\ \A i \in 1..n : s[i] \notin {",", " "}
                  /\ (n = Len(s) \/ s[n + 1] \in {",", " "})
       IN <<SubSeq(s, 1, n)>> \o Tokens(SubSeq(s, n + 1, Len(s)))
DenotedPair(t) ==
  LET tok == Tokens(Chars(t))
  IN IF Len(tok) = 2 /\ ParseFloat(tok[1]).ok /\ ParseFloat(tok[2]).ok
     THEN LET lat == ParseFloat(tok[1]).v
              lon == ParseFloat(tok[2]).v
          IN IF lat >= -90 * Scale /\ lat <= 90 * Scale /\ lon >= -180 * Scale /\ lon <= 180 * Scale
             THEN <<lat, lon>> ELSE <<>>
     ELSE <<>>
C21_CoordinatesAcceptedIffInRange ==
  [][(/\ last' # last /\ last'.state = "AddPlaceStates:waiting_for_location"
      /\ last'.handler = "process_text_coordinates"
      /\ last'.text \in CoordInputs) =>
       IF DenotedPair(last'.text) = <<>>
       THEN last'.result = "rejected" /\ fsm' = fsm /\ user_data' = user_data /\ db' = db
       ELSE /\ last'.result \in {"committed", "commit_failed"}
            /\ last'.result = "committed" =>
                 /\ Len(db') = Len(db) + 1
                 /\ db'[Len(db')].data["latitude"] = Num(DenotedPair(last'.text)[1])
                 /\ db'[Len(db')].data["longitude"] = Num(DenotedPair(last'.text)[2])]_vars

\* The place was committed with the pair of the text "55.7558 37.6173".
C21_Witness ==
  /\ last.handler = "process_text_coordinates" /\ last.text = "55.7558 37.6173"
  /\ last.result = "committed"
  /\ db # <<>> /\ db[Len(db)].data["latitude"] = Num(557558)
  /\ db[Len(db)].data["longitude"] = Num(376173)

\* C22: at every optional step, after the skip button the draft holds an
\* explicit absence for the field of the step: None, which is neither an
\* empty string nor a default such as 0.
OptionalField ==
  [st \in {"AddPlaceStates:waiting_for_review", "AddPlaceStates:waiting_for_address",
           "AddPlaceStates:waiting_for_description", "AddPlaceStates:waiting_for_social",
           "AddMovieStates:waiting_for_rating", "AddSeriesStates:waiting_for_rating",
           "AddTipsStates:waiting_for_card", "AddTipsStates:waiting_for_netmonet",
           "AddTipsStates:waiting_for_cash", "AddWishlistStates:waiting_for_price",
           "AddWishlistStates:waiting_for_photo"} |->
     CASE st = "AddPlaceStates:waiting_for_review" -> "review"
       [] st = "AddPlaceStates:waiting_for_address" -> "address"
       [] st = "AddPlaceStates:waiting_for_description" -> "description"
       [] st = "AddPlaceStates:waiting_for_social" -> "social_link"
       [] st \in {"AddMovieStates:waiting_for_rating", "AddSeriesStates:waiting_for_rating"} -> "rating"
       [] st = "AddTipsStates:waiting_for_card" -> "card"
       [] st = "AddTipsStates:waiting_for_netmonet" -> "netmonet"
       [] st = "AddTipsStates:waiting_for_cash" -> "cash"
       [] st = "AddWishlistStates:waiting_for_price" -> "price"
       [] OTHER -> "photo_url"]
Skipped(st) ==
  /\ last' # last /\ last'.text = SKIP /\ last'.state = st
  /\ last'.handler = StateTable[st].handler
  /\ last'.result \in {"stored", "advanced"}
HeldAfter(st) ==
  LET d == user_data'[KindOf(st)][last'.user]
  IN IF OptionalField[st] \in DOMAIN d THEN d[OptionalField[st]] ELSE None
C22_SkipStoresAbsence ==
  [][\A st \in DOMAIN OptionalField :
       Skipped(st) => HeldAfter(st) \notin {Str(""), Num(0)} /\ HeldAfter(st) = None]_vars

\* C23: at a step that is not optional (expense category and name, place
\* type, movie title, wishlist type category) the skip button is not taken
\* as a value: the state does not advance and nothing is stored.
RequiredStates ==
  {"AddExpenseStates:waiting_for_category", "AddExpenseStates:waiting_for_name",
   "AddPlaceStates:waiting_for_type", "AddMovieStates:waiting_for_title",
   "AddWishlistStates:waiting_for_type_category"}
C23_SkipOnlyAtOptionalSteps ==
  [][(/\ last' # last /\ last'.text = SKIP /\ last'.state \in RequiredStates
      /\ last'.handler = StateTable[last'.state].handler) =>
       (fsm' = fsm /\ user_data' = user_data /\ db' = db)]_vars

\* C24: in edit mode an accepted input makes exactly one call of the update,
\* which changes at most the chosen field (latitude and longitude together
\* for the location) of the record selected for editing and leaves every
\* other field and every other record as it was; the session is then back in
\* the select-field state.
EditedFields ==
  [st \in {field_map[b].state : b \in DOMAIN field_map} |->
     LET f == (CHOOSE b \in DOMAIN field_map : field_map[b].state = st)
     IN IF field_map[f].field = "location" THEN {"latitude", "longitude"}
        ELSE {field_map[f].field}]
Accepted ==
  /\ last' # last /\ last'.state \in DOMAIN EditedFields
  /\ last'.result \in {"updated", "update_failed"}
C24_EditUpdatesOneField ==
  [][Accepted =>
       LET n == state_data[last'.user]["editing_place_id"]
       IN /\ edits' = edits + 1
          /\ fsm'[last'.user] = SelectingField
          /\ DOMAIN db' = DOMAIN db
          /\ \A i \in DOMAIN db : i # n => db'[i] = db[i]
          /\ [db'[n] EXCEPT !.data = <<>>] = [db[n] EXCEPT !.data = <<>>]
          /\ DOMAIN db'[n].data = DOMAIN db[n].data
          /\ \A f \in DOMAIN db[n].data \ EditedFields[last'.state] :
               db'[n].data[f] = db[n].data[f]
          /\ last'.result = "updated" =>
               \A f \in EditedFields[last'.state] : db'[n].data[f] # None]_vars

\* The name of the second place of user 42 has just been replaced.
C24_Witness ==
  /\ last.handler = "edit_place_name" /\ last.result = "updated"
  /\ fsm[last.user] = SelectingField
  /\ db[3].data["name"] = Str("pushkin")
  /\ db[1].data["name"] = Str("Pushkin")

\* C25: for every field that both flows ask for (type, cuisine, price,
\* status, review, address, description, social link, location), the edit
\* handler rejects an input exactly when the step of the add-place wizard
\* rejects it, and the update writes the values the wizard step would put
\* into the draft.
SharedFields ==
  {st \in DOMAIN EditedFields :
     st \notin {"EditPlaceStates:editing_name", "EditPlaceStates:editing_working_hours"}}
EditedField(st) == field_map[CHOOSE b \in DOMAIN field_map : field_map[b].state = st].field
C25_EditValidatesAsWizard ==
  [][(/\ last' # last /\ last'.state \in SharedFields /\ last'.text # CANCEL
      /\ last'.handler # "edit_place_start") =>
       LET w == AddPlaceStep(EditedField(last'.state),
                             IF last'.text = NoText THEN Location ELSE Text(last'.text))
           n == state_data[last'.user]["editing_place_id"]
       IN IF last'.result = "rejected" THEN w.kind = "reject"
          ELSE /\ w.kind = "store"
               /\ last'.result = "updated" =>
                    /\ \A f \in DOMAIN w.value : db'[n].data[f] = w.value[f]
                    /\ \A f \in EditedFields[last'.state] \ DOMAIN w.value :
                         db'[n].data[f] = db[n].data[f]]_vars

\* C26: a failure of the spreadsheet export during a commit does not change
\* the wizard's outcome: the step that commits with a failed export leaves the
\* record persisted (when the database stored it), the draft cleared and the
\* session ended, as the step with a successful export does.
CommitOutcome ==
  /\ last'.result \in {"committed", "commit_failed"}
  /\ fsm' = [fsm EXCEPT ![last'.user] = NoState]
  /\ user_data' = WithoutDraft(KindOf(last'.state), last'.user)
  /\ last'.result = "commit_failed" => db' = db
  /\ last'.result = "committed" =>
       /\ Len(db') = Len(db) + 1
       /\ SubSeq(db', 1, Len(db)) = db
       /\ db'[Len(db')].user_id = last'.user
C26_ExportFailureKeepsOutcome ==
  [][(last' # last /\ last'.export \in {"ok", "failed"}) => CommitOutcome]_vars

\* An expense has just been stored while its export failed.
C26_Witness ==
  /\ last.export = "failed"
  /\ last.result = "committed"
  /\ last.state \in {"AddExpenseStates:waiting_for_note_choice", "AddExpenseStates:waiting_for_note"}
  /\ fsm[last.user] = NoState
  /\ ~HasDraft("expense", last.user)
  /\ db # <<>> /\ db[Len(db)].table = "expenses"

\* C27: starting a wizard replaces the user's unfinished draft of that kind
\* by an empty draft, and the place committed by a run started over a stale
\* draft holds no value of the stale draft (the status apart, which has two
\* values only, and either can be chosen anew).
AddPlaceStates == {st \in WizardStates : KindOf(st) = "place"}
StaleValues == {StaleDraft[f] : f \in DOMAIN StaleDraft \ {"status"}}
C27_StartReplacesDraft ==
  [][/\ (last' # last /\ last'.result = "started") =>
          \E k \in Kinds :
            /\ last'.text = StartButton(k)
            /\ user_data' = [user_data EXCEPT ![k] = (last'.user :> EmptyDraft) @@ @]
            /\ user_data'[k][last'.user] = <<>>
     /\ (/\ last' # last /\ last'.result = "committed"
         /\ starts = 1 /\ last'.state \in AddPlaceStates) =>
          \A f \in DOMAIN db'[Len(db')].data \ {"status"} :
            db'[Len(db')].data[f] \notin StaleValues]_vars

\* A place has been committed by a run that was started over the stale draft.
C27_Witness ==
  /\ last.result = "committed"
  /\ last.state \in AddPlaceStates
  /\ starts = 1
  /\ db # <<>> /\ db[Len(db)].table = "places"
  /\ db[Len(db)].data["cuisine"] = None
  /\ db[Len(db)].data["name"] = Str("Pushkin")

\* C28: an input of one user never changes the session state or a draft of
\* a different user, whatever the order of the two users' inputs.
OtherUsersUntouched(u) ==
  \A w \in Users \ {u} :
    /\ fsm'[w] = fsm[w]
    /\ \A k \in Kinds :
         /\ (w \in DOMAIN user_data'[k]) = (w \in DOMAIN user_data[k])
         /\ w \in DOMAIN user_data[k] => user_data'[k][w] = user_data[k][w]
C28_OtherUserUntouched ==
  [][OtherUsersUntouched(last'.user)]_vars

\* Both users are in the middle of the expense wizard, and user 42 has just
\* entered the amount while user 4 holds a draft with a category.
C28_Witness ==
  /\ last.user = 42 /\ last.handler = "process_expense_amount" /\ last.result = "stored"
  /\ fsm[42] = "AddExpenseStates:waiting_for_date_choice"
  /\ fsm[4] = "AddExpenseStates:waiting_for_name"
  /\ HasDraft("expense", 4) /\ Draft("expense", 4) = [category |-> Str("food")]
  /\ HasDraft("expense", 42) /\ "amount" \in DOMAIN Draft("expense", 42)

\* C29: at the type step of the place wizard the chosen type is stored in the
\* draft and decides the next step: restaurant leads to the cuisine step, bar
\* and cafe lead to the price step, every other type leads to the status
\* step; the cuisine step leads to the price step and the price step to the
\* status step.
TypeSuccessor(t) ==
  IF t = "btn:restaurant" THEN "AddPlaceStates:waiting_for_cuisine"
  ELSE IF t \in {"btn:bar", "btn:cafe"} THEN "AddPlaceStates:waiting_for_price"
  ELSE "AddPlaceStates:waiting_for_status"
C29_TypeDecidesNextStep ==
  [][(last' # last /\ last'.text # CANCEL) =>
       /\ last'.handler = "process_place_type" =>
            /\ fsm'[last'.user] = TypeSuccessor(last'.text)
            /\ last'.user \in DOMAIN user_data'["place"]
            /\ user_data'["place"][last'.user]["place_type"] = Str(last'.text)
       /\ last'.handler = "process_cuisine" =>
            fsm'[last'.user] = "AddPlaceStates:waiting_for_price"
       /\ last'.handler = "process_price_category" =>
            fsm'[last'.user] = "AddPlaceStates:waiting_for_status"]_vars

\* The type cafe has just been chosen: it is in the draft, and the price step
\* is next.
C29_Witness ==
  /\ last.handler = "process_place_type" /\ last.text = "btn:cafe"
  /\ fsm[last.user] = "AddPlaceStates:waiting_for_price"
  /\ HasDraft("place", last.user)
  /\ Draft("place", last.user)["place_type"] = Str("btn:cafe")
  /\ "cuisine" \notin DOMAIN Draft("place", last.user)

\* C30: a call of get_due_reminders reports a daily reminder exactly when the
\* hour and the minute of the call equal the reminder's, on every date and
\* whatever its sent flag.
DailyMatch(r, t) ==
  r.reminder_datetime.h = t.h /\ r.reminder_datetime.mi = t.mi
C30_DailyDueOnMatch ==
  [][due' # due =>
       \A i \in DOMAIN reminders :
         reminders[i].repeat_type = "daily" =>
           (Reported(due'.rows, reminders[i]) <=> DailyMatch(reminders[i], due'.at))]_vars

\* C31: a call of get_due_reminders reports every unsent one-shot reminder
\* whose scheduled time is <= now, whatever recurring reminders are stored,
\* also when the hour and minute of the call match a recurring reminder.
C31_OneShotReportedDespiteRecurring ==
  [][due' # due =>
       \A i \in DOMAIN reminders :
         DueOneShot(reminders[i], due'.at) => Reported(due'.rows, reminders[i])]_vars

\* C32: one run of a wizard creates at most one record, also when the input
\* of its final step is delivered twice and the two handlers overlap: the
\* expenses table never holds two rows of the user's single run.
RowsOf(table, u) == {i \in DOMAIN db : db[i].table = table /\ db[i].user_id = u}
C32_OneRecordPerRun ==
  \A u \in WizardUsers : Cardinality(RowsOf("expenses", u)) <= 1

\* C33: whenever a user's session is in a state of an add-wizard the draft of
\* that wizard exists for the user, and no handler fails on a missing draft,
\* also when the handlers of two inputs overlap. A save_expense task fails on
\* a missing draft when it ends without having removed the draft: the
\* subscripts at its start, or the del at its end, raised KeyError.
SessionHasDraft ==
  \A u \in Users : fsm[u] \in WizardStates => HasDraft(KindOf(fsm[u]), u)
FailedOnMissingDraft(i) ==
  /\ tasks[i].handler = "save_expense" /\ tasks[i].pc = "done"
  /\ \A j \in DOMAIN tasks[i].did : tasks[i].did[j] # "clear"
C33_NoHandlerMissesDraft ==
  /\ SessionHasDraft
  /\ last.result # "error"
  /\ \A i \in DOMAIN tasks : ~FailedOnMissingDraft(i)

\* C34: the cache invalidation of a write of user A, clear("_<A>"), removes
\* no cache entry of a different user B, also when the decimal id of A is a
\* prefix of the id of B.
CacheUsers == {4, 42, 43}
C34_ClearKeepsOtherUsers ==
  [][(clock' = clock /\ ret'.op = "clear") =>
       \A a \in CacheUsers, b \in CacheUsers :
         (a # b /\ ret'.key = UserPattern(a) /\ StatsKey(b) \in DOMAIN cache) =>
           (StatsKey(b) \in DOMAIN cache' /\ cache'[StatsKey(b)] = cache[StatsKey(b)])]_vars

\* C35: when the loop runs through 10:00 on a 5th or a 25th, some iteration
\* reads the clock within the minute 10:00 of that day, and the report for
\* that date is generated. The iterations lie at least 60 seconds apart, so
\* the only one that can have read the clock within 10:00 is the one before
\* the iteration that is about to read it within 10:01: when the clock of the
\* next iteration stands within 10:01, the iteration just done has reported.
C35_DueMinuteObserved ==
  (ticks > 0 /\ now.d \in {5, 25} /\ now.h = 10 /\ now.mi = 1) => report.on

\* C36: the payroll report of one due date goes to each user at most once:
\* the iteration after one that read the clock within the minute 10:00 of a
\* 5th or a 25th reads it outside that minute, whether or not a delivery of
\* the iteration failed, and no user is sent the same period twice.
C36_ReportSentOnce ==
  /\ [][(ticks' = ticks + 1 /\ PayrollPeriod(now).on) => ~PayrollPeriod(now').on]_vars
  /\ [](\A i, j \in DOMAIN outbox :
          (/\ outbox[i].user_id = outbox[j].user_id
           /\ outbox[i].start_date = outbox[j].start_date
           /\ outbox[i].end_date = outbox[j].end_date) => i = j)

\* The report of a period has been sent to user 42, and the loop has taken
\* iterations after the one that sent it.
C36_Witness ==
  /\ ticks = MaxTicks /\ ~report.on /\ now.h = 10 /\ now.mi >= 2
  /\ \E j \in DOMAIN outbox : outbox[j].user_id = 42

\* C37: the statistics of a payroll report for the period [start, end] count
\* exactly the user's shifts whose calendar date lies between start and end
\* inclusive; no shift of another month or year is counted.
CalendarLeq(a, b) == IsoLeq(<<a[3], a[2], a[1]>>, <<b[3], b[2], b[1]>>)
CalendarShifts(u, start_date, end_date) ==
  {i \in DOMAIN db :
     /\ db[i].table = "tips" /\ db[i].live /\ db[i].user_id = u
     /\ CalendarLeq(start_date, db[i].data.tips_date[2])
     /\ CalendarLeq(db[i].data.tips_date[2], end_date)}
C37_PeriodCountsCalendarDates ==
  [][(ticks' = ticks + 1 /\ report'.on) =>
       /\ \A u \in Users :
            ShiftsInPeriod(u, report'.start_date, report'.end_date)
              = CalendarShifts(u, report'.start_date, report'.end_date)
       /\ \A j \in (Len(outbox) + 1)..Len(outbox') :
            outbox'[j].shifts_count
              = Cardinality(CalendarShifts(outbox'[j].user_id, report'.start_date,
                                           report'.end_date))]_vars

\* C38: the payroll periods partition the calendar: every day of the month
\* of a reported period lies in exactly one of the two periods of that month,
\* the one reported on the 25th and the one reported on the 5th after it.
InPeriod(date, period) ==
  CalendarLeq(period.start_date, date) /\ CalendarLeq(date, period.end_date)
FirstHalf(m, y) == PayrollPeriod(At(y, m, 25, 10, 0, 0))
SecondHalf(m, y) ==
  PayrollPeriod(At(IF m = 12 THEN y + 1 ELSE y, IF m = 12 THEN 1 ELSE m + 1, 5, 10, 0, 0))
C38_PeriodsPartitionMonth ==
  report.on =>
    LET m == report.start_date[2]
        y == report.start_date[3]
    IN \A d \in 1..DaysInMonth(m, y) :
         InPeriod(<<d, m, y>>, FirstHalf(m, y)) # InPeriod(<<d, m, y>>, SecondHalf(m, y))

\* C39: every update or delete issued on behalf of a user changes only
\* records owned by that user, and no edit session is open on a record of
\* another user.
EditPlaceStates == {SelectingField} \cup {field_map[b].state : b \in DOMAIN field_map}
Owns(u, table, id) ==
  id \in DOMAIN db /\ db[id].table = table /\ db[id].user_id = u
C39_OnlyOwnRecords ==
  /\ [][\A i \in DOMAIN db : db[i].user_id # last'.user => db'[i] = db[i]]_vars
  /\ [](\A u \in Users :
          /\ fsm[u] \in EditPlaceStates =>
               Owns(u, "places", Field(state_data[u], "editing_place_id"))
          /\ fsm[u] = WaitingForEdit => Owns(u, "notes", Field(state_data[u], "note_id")))

\* --------------------------------------------------------------------------
\* The states whose handlers commit the expense, tips and movie wizards, with
\* the draft fields their commit subscripts, written by the earlier steps.
CommitReads ==
  [st \in {"AddExpenseStates:waiting_for_note_choice", "AddExpenseStates:waiting_for_note",
           "AddTipsStates:waiting_for_date", "AddMovieStates:waiting_for_notes"} |->
     IF st = "AddTipsStates:waiting_for_date"
     THEN [kind |-> "tips", fields |-> {"card", "netmonet", "cash"}]
     ELSE IF st = "AddMovieStates:waiting_for_notes"
     THEN [kind |-> "movie", fields |-> {"title", "genre", "year", "status"}]
     ELSE [kind |-> "expense", fields |-> ExpenseRequired]]

CommitHandlers ==
  {"process_expense_note_choice", "process_expense_note", "process_tips_date",
   "process_movie_notes"}

\* C40: with the updates handled one at a time, a user who stands at the
\* commit step of the expense, tips or movie wizard has a draft holding every
\* field the commit subscripts (category, name, amount and date of an expense;
\* card, netmonet and cash of the tips, whose date the commit step itself
\* writes; title, genre, year and status of a movie), and no commit handler
\* ends in a KeyError.
C40_CommitFindsItsFields ==
  /\ \A u \in DOMAIN fsm :
       fsm[u] \in DOMAIN CommitReads =>
         /\ HasDraft(CommitReads[fsm[u]].kind, u)
         /\ CommitReads[fsm[u]].fields \subseteq DOMAIN Draft(CommitReads[fsm[u]].kind, u)
  /\ last.handler \in CommitHandlers => last.result # "error"

C40_Witness ==
  /\ last.handler = "process_tips_date"
  /\ last.result = "committed"
  /\ \E i \in DOMAIN db : db[i].table = "tips" /\ db[i].user_id = last.user

====
